---- MODULE Spec2Model ----
(***************************************************************************)
(* A model of the quantumflow matching core: the per-symbol order book     *)
(* (src/src/engine/orderbook.rs), the multi-symbol matching engine         *)
(* (src/src/engine/matching.rs), the domain types                          *)
(* (src/src/utils/types.rs), the risk manager                              *)
(* (src/src/risk/manager.rs) and the backtest engine                       *)
(* (src/src/backtest/engine.rs).                                           *)
(*                                                                         *)
(* Decimals are modelled by integers (exact arithmetic, no rounding) and,  *)
(* where the risk manager or the backtest divides, by exact fractions, a   *)
(* BTreeMap<Decimal, Vec<Order>> by a function whose DOMAIN is the set of  *)
(* price keys, a Vec by a sequence, an Option by a sequence of length <= 1,*)
(* and Uuid::new_v4 by a counter that never hands out the same id twice.   *)
(*                                                                         *)
(* Specifications, all from the same Init:                                 *)
(*   Spec      submit_order and cancel_order calls that do not overlap     *)
(*   SpecTyped the same, with orders of every OrderType                    *)
(*   SpecRecv  submit_order calls, the trade receiver may be dropped       *)
(*   SpecSnap  a ladder of many levels and get_orderbook_snapshot calls    *)
(*   SpecConc  submit_order step by step, tasks interleaved                *)
(*   SpecBook  one OrderBook filled with add_order, and its getters        *)
(*   SpecSymbols   engine calls on two symbols, with get_all_symbols       *)
(*   SpecRisk      RiskManager calls that do not overlap                   *)
(*   SpecRiskConc  RiskManager calls step by step, tasks interleaved       *)
(*   SpecGiven     submit_order given orders of any status and fill        *)
(*   SpecShared    submit_order given orders that share an id              *)
(*   SpecMarkets   two tasks, each on its own symbol, interleaved          *)
(*   SpecBacktest  BacktestEngine::new and execute_signal calls            *)
(***************************************************************************)
EXTENDS Integers, Sequences, FiniteSets, TLC

\* ------------------------------------------------------------------ bounds

\* Number of orders created with prices and quantities of the caller's choice.
MaxOrders == 3
\* Limit prices are 1..MaxPrice.
MaxPrice == 2
\* Order quantities are 1..MaxQty.
MaxQty == 2
\* Number of tasks that may be inside the engine at the same time.
NumTasks == 2
\* Price levels per side of the ladder that the snapshots are taken of.
SnapLevels == 22
\* Utc::now() returns one of 1..MaxClock.
MaxClock == 2
\* Number of orders submitted at the best prices of the finished ladder.
TouchOrders == 2
\* Number of update_position calls.
MaxUpdates == 2
\* Number of orders submitted in any condition.
GivenOrders == 2
\* Number of execute_signal calls on one BacktestEngine.
MaxSignals == 2
\* Largest initial capital of a BacktestEngine.
MaxCapital == 3

Symbols == {"BTCUSD"}
\* The symbols of the RiskManager's positions
RiskSymbols == {"BTCUSD", "ETHUSD"}
\* Fill prices handed to update_position are 0..MaxPrice.
FillPrices == 0..MaxPrice
\* Fill quantities handed to update_position are 1..MaxQty + 1.
FillQuantities == 1..(MaxQty + 1)
Prices == 1..MaxPrice
Quantities == 1..MaxQty
OrderIds == 1..MaxOrders
Tasks == 1..NumTasks
\* The tasks that share the RiskManager: the one that handles the trades and
\* the one that submits the orders
RiskTasks == {1, 2}

\* ------------------------------------------------------------ domain types

\* enum Side
Side == {"Buy", "Sell"}

\* enum OrderType
OrderType == {"Limit", "Market", "StopLimit", "StopMarket"}

\* enum OrderStatus
OrderStatus == {"Pending", "Open", "PartiallyFilled", "Filled", "Cancelled", "Rejected"}

\* Order::new: filled_quantity is zero and the status Pending.
Order_new(id, symbol, side, order_type, price, quantity) ==
    [id |-> id, symbol |-> symbol, side |-> side, order_type |-> order_type,
     price |-> price, quantity |-> quantity, filled_quantity |-> 0,
     status |-> "Pending"]

\* Order::remaining_quantity
remaining_quantity(o) == o.quantity - o.filled_quantity

\* Filled only when more than the quantity is filled
is_overfilled(o) == o.filled_quantity > o.quantity

\* Order::is_fully_filled
is_fully_filled(o) == o.filled_quantity >= o.quantity

\* Trade::new (the trade's own id and timestamp carry no behaviour)
Trade_new(symbol, price, quantity, buy_order_id, sell_order_id) ==
    [symbol |-> symbol, price |-> price, quantity |-> quantity,
     buy_order_id |-> buy_order_id, sell_order_id |-> sell_order_id]

\* Decimal::min
Min(a, b) == IF a <= b THEN a ELSE b

\* ------------------------------------------------------------- collections

\* Vec::remove(i), 1-based
RemoveAt(s, i) == SubSeq(s, 1, i - 1) \o SubSeq(s, i + 1, Len(s))

\* PositionOf that finds the last index whose order has the id
LastPositionOf(s, order_id) ==
    IF \E i \in 1..Len(s) : s[i].id = order_id
    THEN CHOOSE i \in 1..Len(s) :
            /\ s[i].id = order_id
            /\ \A j \in (i + 1)..Len(s) : s[j].id # order_id
    ELSE 0

\* Iterator::position: the first index whose order has the id, 0 when none
PositionOf(s, order_id) ==
    IF \E i \in 1..Len(s) : s[i].id = order_id
    THEN CHOOSE i \in 1..Len(s) :
            /\ s[i].id = order_id
            /\ \A j \in 1..(i - 1) : s[j].id # order_id
    ELSE 0

\* BTreeMap::remove(key)
MapRemove(m, k) == [x \in (DOMAIN m) \ {k} |-> m[x]]

\* BTreeMap::iter: the keys in ascending order
RECURSIVE Ascending(_)
Ascending(S) ==
    IF S = {} THEN <<>>
    ELSE LET lo == CHOOSE x \in S : \A y \in S : x <= y
         IN <<lo>> \o Ascending(S \ {lo})

\* Iterator::rev
Reverse(s) == [i \in 1..Len(s) |-> s[Len(s) + 1 - i]]

\* Iterator::sum over a sequence of numbers
RECURSIVE SeqSum(_)
SeqSum(s) == IF s = <<>> THEN 0 ELSE Head(s) + SeqSum(Tail(s))

\* ---------------------------------------------------------------- OrderBook

\* OrderBook::new
OrderBook_new(symbol) == [symbol |-> symbol, bids |-> <<>>, asks |-> <<>>]

\* PushAtPrice with the order put at the head of the queue
PushFrontAtPrice(ladder, price, order) ==
    IF price \in DOMAIN ladder
    THEN [ladder EXCEPT ![price] = <<order>> \o @]
    ELSE [x \in (DOMAIN ladder) \cup {price} |->
             IF x = price THEN <<order>> ELSE ladder[x]]

\* The BTreeMap entry(price).or_insert_with(Vec::new).push(order)
PushAtPrice(ladder, price, order) ==
    IF price \in DOMAIN ladder
    THEN [ladder EXCEPT ![price] = Append(@, order)]
    ELSE [x \in (DOMAIN ladder) \cup {price} |->
             IF x = price THEN <<order>> ELSE ladder[x]]

\* OrderBook::add_order
add_order(book, order) ==
    IF order.side = "Buy"
    THEN [book EXCEPT !.bids = PushAtPrice(@, order.price, order)]
    ELSE [book EXCEPT !.asks = PushAtPrice(@, order.price, order)]

\* RemoveFromLadder that returns the order it found and leaves it queued
RemoveFromLadderKeep(ladder, order_id) ==
    LET hits == {p \in DOMAIN ladder : PositionOf(ladder[p], order_id) # 0}
    IN IF hits = {}
       THEN [ladder |-> ladder, found |-> <<>>]
       ELSE LET price == Head(Ascending(hits))
            IN [ladder |-> ladder,
                found |-> <<ladder[price][PositionOf(ladder[price], order_id)]>>]

\* RemoveFromLadder that leaves an emptied level in the map
RemoveFromLadderNoPrune(ladder, order_id) ==
    LET hits == {p \in DOMAIN ladder : PositionOf(ladder[p], order_id) # 0}
    IN IF hits = {}
       THEN [ladder |-> ladder, found |-> <<>>]
       ELSE LET price == Head(Ascending(hits))
                pos == PositionOf(ladder[price], order_id)
            IN [ladder |-> [ladder EXCEPT ![price] = RemoveAt(ladder[price], pos)],
                found |-> <<ladder[price][pos]>>]

\* The scan of one ladder in remove_order: the levels in BTreeMap::iter_mut
\* order, the first level holding the id, the first position in it; the level
\* is pruned when the removal empties it.
RemoveFromLadder(ladder, order_id) ==
    LET hits == {p \in DOMAIN ladder : PositionOf(ladder[p], order_id) # 0}
    IN IF hits = {}
       THEN [ladder |-> ladder, found |-> <<>>]
       ELSE LET price == Head(Ascending(hits))
                pos == PositionOf(ladder[price], order_id)
                orders == RemoveAt(ladder[price], pos)
            IN [ladder |-> IF orders = <<>>
                           THEN MapRemove(ladder, price)
                           ELSE [ladder EXCEPT ![price] = orders],
                found |-> <<ladder[price][pos]>>]

\* OrderBook::remove_order: the book after the call and the Option returned
remove_order(book, order_id, side) ==
    LET r == RemoveFromLadder(IF side = "Buy" THEN book.bids ELSE book.asks, order_id)
    IN [book |-> IF side = "Buy"
                 THEN [book EXCEPT !.bids = r.ladder]
                 ELSE [book EXCEPT !.asks = r.ladder],
        found |-> r.found]

\* Crosses with the comparisons made strict
CrossesStrict(side, level_price, limit) ==
    IF side = "Buy" THEN level_price < limit ELSE level_price > limit

\* The two filter closures of match_order: a level crosses the incoming limit
Crosses(side, level_price, limit) ==
    IF side = "Buy" THEN level_price <= limit ELSE level_price >= limit

\* VisitOrder without the rev() of the Sell arm
VisitOrderAscending(side, opposite_book) == Ascending(DOMAIN opposite_book)

\* The order in which match_order reads the opposite ladder: iter() for a Buy,
\* iter().rev() for a Sell
VisitOrder(side, opposite_book) ==
    IF side = "Buy"
    THEN Ascending(DOMAIN opposite_book)
    ELSE Reverse(Ascending(DOMAIN opposite_book))

\* prices_to_match
prices_to_match(order, opposite_book) ==
    SelectSeq(VisitOrder(order.side, opposite_book),
              LAMBDA p : Crosses(order.side, p, order.price))

\* trade_quantity without the min against the resting order
trade_quantity_incoming(order, opposite_order) == remaining_quantity(order)

\* trade_quantity
trade_quantity(order, opposite_order) ==
    Min(remaining_quantity(order), remaining_quantity(opposite_order))

\* TradePrice taking the incoming order's limit
TradePriceAggressor(order, price) == order.price

\* The price handed to Trade::new: the key of the level being walked
TradePrice(order, price) == price

\* The pair with the incoming order's id first, whatever its side
TradeIdsAggressorFirst(order, opposite_order) == <<order.id, opposite_order.id>>

\* The (buy_order_id, sell_order_id) pair of a trade
TradeIds(order, opposite_order) ==
    IF order.side = "Buy"
    THEN <<order.id, opposite_order.id>>
    ELSE <<opposite_order.id, order.id>>

\* i after a resting order was left in place (it was not fully filled)
NextIndex(i) == i + 1

\* The while loop of match_order over one level, from index i (1-based)
RECURSIVE MatchLevel(_, _, _, _, _, _)
MatchLevel(symbol, price, order, orders_at_price, i, trades) ==
    IF i <= Len(orders_at_price) /\ ~is_fully_filled(order)
    THEN LET opposite_order == orders_at_price[i]
             qty == trade_quantity(order, opposite_order)
             ids == TradeIds(order, opposite_order)
             trade == Trade_new(symbol, TradePrice(order, price), qty, ids[1], ids[2])
             order2 == [order EXCEPT !.filled_quantity = @ + qty]
             opposite2 == [opposite_order EXCEPT !.filled_quantity = @ + qty]
         IN IF is_fully_filled(opposite2)
            THEN MatchLevel(symbol, price, order2, RemoveAt(orders_at_price, i),
                            i, Append(trades, trade))
            ELSE MatchLevel(symbol, price, order2,
                            [orders_at_price EXCEPT ![i] = opposite2],
                            NextIndex(i), Append(trades, trade))
    ELSE [order |-> order, orders |-> orders_at_price, trades |-> trades]

\* The for loop of match_order over prices_to_match, from index k
RECURSIVE MatchPrices(_, _, _, _, _, _)
MatchPrices(symbol, opposite_book, order, prices, k, trades) ==
    IF k > Len(prices) \/ is_fully_filled(order)
    THEN [order |-> order, opposite_book |-> opposite_book, trades |-> trades]
    ELSE LET price == prices[k]
         IN IF price \in DOMAIN opposite_book
            THEN LET r == MatchLevel(symbol, price, order, opposite_book[price], 1, trades)
                     pruned == IF r.orders = <<>>
                               THEN MapRemove(opposite_book, price)
                               ELSE [opposite_book EXCEPT ![price] = r.orders]
                 IN MatchPrices(symbol, pruned, r.order, prices, k + 1, r.trades)
            ELSE MatchPrices(symbol, opposite_book, order, prices, k + 1, trades)

\* OrderBook::match_order: the book after the call, the order and the trades
match_order(book, order) ==
    LET opposite_book == IF order.side = "Buy" THEN book.asks ELSE book.bids
        r == MatchPrices(book.symbol, opposite_book, order,
                         prices_to_match(order, opposite_book), 1, <<>>)
    IN [book |-> IF order.side = "Buy"
                 THEN [book EXCEPT !.asks = r.opposite_book]
                 ELSE [book EXCEPT !.bids = r.opposite_book],
        order |-> r.order,
        trades |-> r.trades]

\* OrderBook::get_best_bid, as an Option
get_best_bid(book) ==
    IF DOMAIN book.bids = {} THEN <<>>
    ELSE <<CHOOSE p \in DOMAIN book.bids : \A q \in DOMAIN book.bids : q <= p>>

\* OrderBook::get_best_ask, as an Option
get_best_ask(book) ==
    IF DOMAIN book.asks = {} THEN <<>>
    ELSE <<CHOOSE p \in DOMAIN book.asks : \A q \in DOMAIN book.asks : p <= q>>

\* get_spread with the two prices exchanged
get_spread_reversed(book) ==
    IF get_best_bid(book) # <<>> /\ get_best_ask(book) # <<>>
    THEN <<get_best_bid(book)[1] - get_best_ask(book)[1]>>
    ELSE <<>>

\* OrderBook::get_spread
get_spread(book) ==
    IF get_best_bid(book) # <<>> /\ get_best_ask(book) # <<>>
    THEN <<get_best_ask(book)[1] - get_best_bid(book)[1]>>
    ELSE <<>>

\* The depth of get_snapshot: take(20)
SnapshotDepth == 20

\* Take that keeps every element
TakeAll(s, n) == s

\* Iterator::take(n)
Take(s, n) == SubSeq(s, 1, Min(n, Len(s)))

\* The closure of get_snapshot that maps a level to an OrderBookLevel
level_of(price, orders) ==
    [price |-> price,
     quantity |-> SeqSum([i \in 1..Len(orders) |-> remaining_quantity(orders[i])])]

\* The bids of get_snapshot: iter().rev().take(20).map(..)
snapshot_bids(book) ==
    LET keys == Take(Reverse(Ascending(DOMAIN book.bids)), SnapshotDepth)
    IN [i \in 1..Len(keys) |-> level_of(keys[i], book.bids[keys[i]])]

\* The asks of get_snapshot: iter().take(20).map(..)
snapshot_asks(book) ==
    LET keys == Take(Ascending(DOMAIN book.asks), SnapshotDepth)
    IN [i \in 1..Len(keys) |-> level_of(keys[i], book.asks[keys[i]])]

\* ------------------------------------------------------------- RiskManager
\* The prices and quantities handed to the RiskManager are whole numbers. An
\* average price is a quotient and the profit made on it a product with a
\* quotient, so these Decimals are kept exact, as fractions in lowest terms.

Abs(x) == IF x < 0 THEN -x ELSE x

RECURSIVE Gcd(_, _)
Gcd(a, b) == IF b = 0 THEN a ELSE Gcd(b, a % b)

\* The fraction n/d (d > 0) in lowest terms
Fraction(n, d) ==
    LET g == Gcd(Abs(n), d) IN [n |-> n \div g, d |-> d \div g]

\* Decimal::from and Decimal::ZERO
Decimal_from(i) == [n |-> i, d |-> 1]
Decimal_ZERO == Decimal_from(0)

\* +, -, * and / of Decimals, and their order
Decimal_add(a, b) == Fraction(a.n * b.d + b.n * a.d, a.d * b.d)
Decimal_sub(a, b) == Fraction(a.n * b.d - b.n * a.d, a.d * b.d)
Decimal_mul(a, b) == Fraction(a.n * b.n, a.d * b.d)
Decimal_div(a, k) == Fraction(a.n, a.d * k)
Decimal_lt(a, b) == a.n * b.d < b.n * a.d

\* The RiskLimits the RiskManager is created with
limits == [max_position_size |-> 2, max_order_size |-> 1, max_daily_loss |-> 1]

\* Position::new
Position_new(symbol) ==
    [symbol |-> symbol, quantity |-> 0, average_price |-> Decimal_ZERO,
     realized_pnl |-> Decimal_ZERO]

\* The profit of a sale that forgets what the position cost
sell_pnl_of_price(position, price, quantity) == Decimal_from(price * quantity)

\* Position::update, Sell: pnl
sell_pnl(position, price, quantity) ==
    Decimal_mul(Decimal_sub(Decimal_from(price), position.average_price),
                Decimal_from(quantity))

\* A position that is closed only when it has gone below 0
closed_below(quantity) == quantity < 0

\* Position::update, Sell: the test that collapses quantity and average_price
closed(quantity) == quantity <= 0

\* Position::update
Position_update(position, side, price, quantity) ==
    IF side = "Buy"
    THEN LET total_cost == Decimal_add(
                 Decimal_mul(position.average_price, Decimal_from(position.quantity)),
                 Decimal_from(price * quantity))
             new_quantity == position.quantity + quantity
         IN [position EXCEPT
               !.quantity = new_quantity,
               !.average_price = IF new_quantity > 0
                                 THEN Decimal_div(total_cost, new_quantity)
                                 ELSE @]
    ELSE LET pnl == sell_pnl(position, price, quantity)
             realized == IF position.quantity > 0
                         THEN Decimal_add(position.realized_pnl, pnl)
                         ELSE position.realized_pnl
             new_quantity == position.quantity - quantity
         IN [position EXCEPT
               !.realized_pnl = realized,
               !.quantity = IF closed(new_quantity) THEN 0 ELSE new_quantity,
               !.average_price = IF closed(new_quantity) THEN Decimal_ZERO ELSE @]

\* get_position that makes the entry it does not find
get_position_insert(positions, symbol) ==
    [positions |-> IF symbol \in DOMAIN positions THEN positions
                   ELSE [x \in (DOMAIN positions) \cup {symbol} |->
                            IF x = symbol THEN Position_new(symbol) ELSE positions[x]],
     position |-> IF symbol \in DOMAIN positions
                  THEN positions[symbol]
                  ELSE Position_new(symbol)]

\* RiskManager::get_position: the map after the call (it is only read) and
\* the clone of the entry, or a new Position when there is none
get_position(positions, symbol) ==
    [positions |-> positions,
     position |-> IF symbol \in DOMAIN positions
                  THEN positions[symbol]
                  ELSE Position_new(symbol)]

\* The size check_order compares with max_position_size
new_position_size(position, order) ==
    IF order.side = "Buy"
    THEN position.quantity + order.quantity
    ELSE Abs(position.quantity - order.quantity)

\* exceeds with the limit itself refused
exceeds_or_equals(value, limit) == value >= limit

\* The comparison of the two size checks of check_order: value > limit
exceeds(value, limit) == value > limit

\* check_circuit_breaker that trips at the limit
check_circuit_breaker_at_limit(daily_pnl) ==
    ~Decimal_lt(Decimal_from(-limits.max_daily_loss), daily_pnl)

\* RiskManager::check_circuit_breaker
check_circuit_breaker(daily_pnl) ==
    Decimal_lt(daily_pnl, Decimal_from(-limits.max_daily_loss))

\* RiskManager::check_order, with the position it was handed by get_position
\* and the daily_pnl it read: Ok or the Err it returns, named by what failed
check_order_with(position, daily_pnl, order) ==
    IF exceeds(order.quantity, limits.max_order_size) THEN "OrderSize"
    ELSE IF exceeds(new_position_size(position, order), limits.max_position_size)
         THEN "PositionSize"
         ELSE IF Decimal_lt(daily_pnl, Decimal_from(-limits.max_daily_loss))
              THEN "DailyLoss"
              ELSE "Ok"

\* RiskManager::check_order: the positions after the call and the result
check_order(positions, daily_pnl, order) ==
    IF exceeds(order.quantity, limits.max_order_size)
    THEN [positions |-> positions, result |-> "OrderSize"]
    ELSE LET g == get_position(positions, order.symbol)
         IN [positions |-> g.positions,
             result |-> check_order_with(g.position, daily_pnl, order)]

\* update_position that adds the position's realized_pnl to daily_pnl
pnl_change_total(old, new) == new.realized_pnl

\* update_position's pnl_change
pnl_change(old, new) == Decimal_sub(new.realized_pnl, old.realized_pnl)

\* RiskManager::update_position: the entry is made if missing and updated, and
\* the change of its realized_pnl is added to daily_pnl
update_position(positions, daily_pnl, symbol, side, price, quantity) ==
    LET old == get_position(positions, symbol).position
        new == Position_update(old, side, price, quantity)
    IN [positions |-> [x \in (DOMAIN positions) \cup {symbol} |->
                          IF x = symbol THEN new ELSE positions[x]],
        daily_pnl |-> Decimal_add(daily_pnl, pnl_change(old, new))]

\* ----------------------------------------------------------- BacktestEngine
\* The Decimals of the BacktestEngine are exact fractions too; the prices and
\* quantities of its signals are whole numbers.

\* <=, ==, min and the quotient by a positive Decimal
Decimal_le(a, b) == a.n * b.d <= b.n * a.d
Decimal_eq(a, b) == a.n * b.d = b.n * a.d
Decimal_min(a, b) == IF Decimal_le(a, b) THEN a ELSE b
Decimal_quot(a, b) == Fraction(a.n * b.d, a.d * b.n)

\* BacktestEngine::new
BacktestEngine_new(initial_capital) ==
    [initial_capital |-> initial_capital,
     current_capital |-> initial_capital,
     position |-> Decimal_ZERO,
     position_price |-> Decimal_ZERO,
     trades |-> <<>>,
     equity_curve |-> <<initial_capital>>]

\* The Trade that execute_signal builds; its three ids are fresh random Uuids
\* and its timestamp is the caller's, none of which the engine reads again
SignalTrade(symbol, price, quantity) ==
    [symbol |-> symbol, price |-> price, quantity |-> quantity]

\* long_pnl with the difference taken the other way round
long_pnl_reversed(price, position_price, sell_quantity) ==
    Decimal_mul(Decimal_sub(position_price, price), sell_quantity)

\* The pnl of the "Closing long position" arm
long_pnl(price, position_price, sell_quantity) ==
    Decimal_mul(Decimal_sub(price, position_price), sell_quantity)

\* The position_price an arm leaves: zero when the position is closed
price_when_flat(position, position_price) ==
    IF Decimal_eq(position, Decimal_ZERO) THEN Decimal_ZERO ELSE position_price

\* BacktestEngine::execute_signal: the engine after the call and the Option
\* it returns
execute_signal(engine, symbol, side, price, quantity) ==
    IF side = "Buy"
    THEN IF Decimal_le(Decimal_ZERO, engine.position)
         THEN LET cost == Decimal_mul(price, quantity)
                  total_cost == Decimal_add(
                      Decimal_mul(engine.position_price, engine.position), cost)
                  position == Decimal_add(engine.position, quantity)
                  trade == SignalTrade(symbol, price, quantity)
              IN IF Decimal_le(cost, engine.current_capital)
                 THEN [engine |-> [engine EXCEPT
                          !.position = position,
                          !.position_price = Decimal_quot(total_cost, position),
                          !.current_capital = Decimal_sub(@, cost),
                          !.trades = Append(@, trade)],
                       result |-> <<trade>>]
                 ELSE [engine |-> engine, result |-> <<>>]
         ELSE LET pnl == Decimal_mul(Decimal_sub(engine.position_price, price), quantity)
                  position == Decimal_add(engine.position, quantity)
                  trade == SignalTrade(symbol, price, quantity)
              IN [engine |-> [engine EXCEPT
                      !.current_capital = Decimal_add(@, pnl),
                      !.position = position,
                      !.position_price = price_when_flat(position, @),
                      !.trades = Append(@, trade)],
                  result |-> <<trade>>]
    ELSE IF Decimal_lt(Decimal_ZERO, engine.position)
         THEN LET sell_quantity == Decimal_min(quantity, engine.position)
                  pnl == long_pnl(price, engine.position_price, sell_quantity)
                  position == Decimal_sub(engine.position, sell_quantity)
                  trade == SignalTrade(symbol, price, sell_quantity)
              IN [engine |-> [engine EXCEPT
                      !.current_capital =
                          Decimal_add(@, Decimal_add(Decimal_mul(price, sell_quantity), pnl)),
                      !.position = position,
                      !.position_price = price_when_flat(position, @),
                      !.trades = Append(@, trade)],
                  result |-> <<trade>>]
         ELSE LET trade == SignalTrade(symbol, price, quantity)
              IN [engine |-> [engine EXCEPT
                      !.position = Decimal_sub(@, quantity),
                      !.position_price = price,
                      !.current_capital = Decimal_add(@, Decimal_mul(price, quantity)),
                      !.trades = Append(@, trade)],
                  result |-> <<trade>>]

\* The pnl get_results gives the pair of trades at 2k-1 and 2k
pair_pnl(entry, exit) ==
    IF Decimal_lt(entry.price, exit.price)
    THEN Decimal_mul(Decimal_sub(exit.price, entry.price), entry.quantity)
    ELSE Decimal_mul(Decimal_sub(entry.price, exit.price), entry.quantity)

\* The peak and the largest drawdown after the first k points of the curve
RECURSIVE drawdown_scan(_, _, _)
drawdown_scan(equity_curve, k, initial_capital) ==
    IF k = 0
    THEN [peak |-> initial_capital, max_drawdown |-> Decimal_ZERO]
    ELSE LET before == drawdown_scan(equity_curve, k - 1, initial_capital)
             equity == equity_curve[k]
             peak == IF Decimal_lt(before.peak, equity) THEN equity ELSE before.peak
             drawdown == Decimal_quot(Decimal_sub(peak, equity), peak)
         IN [peak |-> peak,
             max_drawdown |-> IF Decimal_lt(before.max_drawdown, drawdown)
                              THEN drawdown ELSE before.max_drawdown]

\* BacktestEngine::get_results, less the two f64 ratios (sharpe_ratio and
\* win_rate), which are computed from the fields below
get_results(engine) ==
    LET pairs == 1..(Len(engine.trades) \div 2)
        pnls == [k \in pairs |->
                    pair_pnl(engine.trades[2 * k - 1], engine.trades[2 * k])]
        winning_trades == Cardinality({k \in pairs : Decimal_lt(Decimal_ZERO, pnls[k])})
        losing_trades == Cardinality(pairs) - winning_trades
    IN [total_trades |-> winning_trades + losing_trades,
        winning_trades |-> winning_trades,
        losing_trades |-> losing_trades,
        total_pnl |-> Decimal_sub(engine.current_capital, engine.initial_capital),
        max_drawdown |-> drawdown_scan(engine.equity_curve, Len(engine.equity_curve),
                                       engine.initial_capital).max_drawdown,
        trades |-> engine.trades]

\* ----------------------------------------------------------- MatchingEngine

VARIABLES
    orderbooks,   \* MatchingEngine.orderbooks: DashMap<String, OrderBook>
    channel,      \* the trades sent on trade_sender, in send order
    nextId,       \* the id the next Order::new draws
    tasks,        \* per task: where it stands inside submit_order, and its locals
    last,         \* the call that returned last, with what it was given and returned
    cancelled,    \* history: per order id, the number of successful cancels (2
                  \* stands for "more than one") and the id the next Order::new
                  \* would draw when the last one returned
    receiver_open,\* whether the UnboundedReceiver paired with trade_sender lives
    applied       \* history: the ids of the submitted orders, in the order in
                  \* which insert stored their books

VARIABLES
    positions,    \* RiskManager.positions: DashMap<String, Position>
    daily_pnl,    \* RiskManager.daily_pnl: RwLock<Decimal>
    risk_tasks,   \* per task: where it stands inside a RiskManager call
    risk_last,    \* the RiskManager call that returned last, with the state
                  \* it was made in and what it returned
    at_reset,     \* history: per symbol, the realized_pnl its position showed
                  \* when reset_daily_pnl ran last
    updates       \* history: the number of update_position calls made

VARIABLES
    backtest,     \* the BacktestEngine
    signals       \* history: the execute_signal calls made on it since
                  \* BacktestEngine::new, each with the engine it found and
                  \* what it returned

risk_vars == <<positions, daily_pnl, risk_tasks, risk_last, at_reset, updates>>

backtest_vars == <<backtest, signals>>

vars == <<orderbooks, channel, nextId, tasks, last, cancelled, receiver_open, applied,
          positions, daily_pnl, risk_tasks, risk_last, at_reset, updates,
          backtest, signals>>

NoOrder == Order_new(0, "", "Buy", "Limit", 0, 0)
NoBook == OrderBook_new("")

IdleTask ==
    [pc |-> "idle", symbol |-> "", seen |-> NoBook, book |-> NoBook,
     incoming |-> NoOrder, matched |-> NoOrder, final_order |-> NoOrder,
     trades |-> <<>>, unsent |-> <<>>]

NoCall ==
    [op |-> "none", symbol |-> "", id |-> 0, ok |-> FALSE, seen |-> NoBook,
     book |-> NoBook, incoming |-> NoOrder, matched |-> NoOrder,
     final_order |-> NoOrder, trades |-> <<>>, snapshot |-> <<>>,
     repeated |-> FALSE, previous |-> <<>>, quotes |-> <<>>, symbols |-> {}]

IdleRiskTask ==
    [pc |-> "idle", symbol |-> "", old_pnl |-> Decimal_ZERO,
     pnl_change |-> Decimal_ZERO, order |-> NoOrder, result |-> ""]

NoRiskCall ==
    [op |-> "none", order |-> NoOrder, result |-> "", breaker |-> FALSE,
     positions |-> <<>>, daily_pnl |-> Decimal_ZERO]

\* MatchingEngine::new and RiskManager::new
Init ==
    /\ orderbooks = <<>>
    /\ channel = <<>>
    /\ nextId = 1
    /\ tasks = [t \in Tasks |-> IdleTask]
    /\ last = NoCall
    /\ cancelled = [i \in OrderIds |-> [count |-> 0, mark |-> 0]]
    /\ receiver_open = TRUE
    /\ applied = <<>>
    /\ positions = <<>>
    /\ daily_pnl = Decimal_ZERO
    /\ risk_tasks = [t \in RiskTasks |-> IdleRiskTask]
    /\ risk_last = NoRiskCall
    /\ at_reset = [symbol \in RiskSymbols |-> Decimal_ZERO]
    /\ updates = 0
    /\ backtest = BacktestEngine_new(Decimal_from(MaxCapital))
    /\ signals = <<>>

\* DashMap::insert
MapInsert(m, k, v) == [x \in (DOMAIN m) \cup {k} |-> IF x = k THEN v ELSE m[x]]

\* A store that drops the symbol when its book has no order left
orderbooks_insert_or_drop(books, symbol, book) ==
    IF DOMAIN book.bids = {} /\ DOMAIN book.asks = {}
    THEN [x \in (DOMAIN books) \ {symbol} |-> books[x]]
    ELSE MapInsert(books, symbol, book)

\* A store that puts the book under every symbol of the map
orderbooks_insert_all(books, symbol, book) ==
    [x \in (DOMAIN books) \cup {symbol} |-> book]

\* submit_order's self.orderbooks.insert(symbol, book)
orderbooks_insert(books, symbol, book) == MapInsert(books, symbol, book)

\* MatchingEngine::get_or_create_orderbook: the map after entry().or_insert_with()
\* and the clone it returns
get_or_create_orderbook(books, symbol) ==
    LET after == IF symbol \in DOMAIN books
                 THEN books
                 ELSE MapInsert(books, symbol, OrderBook_new(symbol))
    IN [orderbooks |-> after, book |-> after[symbol]]

\* classify without the PartiallyFilled arm
classify_no_partial(matched_order) ==
    IF is_fully_filled(matched_order)
    THEN [matched_order EXCEPT !.status = "Filled"]
    ELSE matched_order

\* submit_order's "Update order status"
classify(matched_order) ==
    IF is_fully_filled(matched_order)
    THEN [matched_order EXCEPT !.status = "Filled"]
    ELSE IF matched_order.filled_quantity > 0
         THEN [matched_order EXCEPT !.status = "PartiallyFilled"]
         ELSE matched_order

\* rest_residual that never queues the order
rest_residual_dropped(book, final_order) == book

\* submit_order's "If not fully filled, add to book"
rest_residual(book, final_order) ==
    IF ~is_fully_filled(final_order) THEN add_order(book, final_order) ELSE book

\* What submit_order computes on its clone of the book, between the call of
\* get_or_create_orderbook and the insert that stores the clone back
submit_local(book, order) ==
    LET opened == [order EXCEPT !.status = "Open"]
        m == match_order(book, opened)
        final_order == classify(m.order)
    IN [seen |-> book, incoming |-> order, matched |-> m.order,
        final_order |-> final_order, trades |-> m.trades,
        book |-> rest_residual(m.book, final_order)]

\* submit_result with the Err of a failed send handed to the caller
submit_result_send_error(open, trades) == open \/ trades = <<>>

\* Whether submit_order returns Ok: the Err of a send is logged and dropped,
\* and the function ends with Ok(final_order)
submit_result(open, trades) == TRUE

\* The record of a submit_order call that returned
SubmitCall(symbol, r) ==
    [op |-> "submit", symbol |-> symbol, id |-> r.incoming.id,
     ok |-> submit_result(receiver_open, r.trades),
     seen |-> r.seen, book |-> r.book, incoming |-> r.incoming,
     matched |-> r.matched, final_order |-> r.final_order, trades |-> r.trades,
     snapshot |-> <<>>, repeated |-> FALSE, previous |-> <<>>,
     quotes |-> <<>>, symbols |-> {}]

\* send with the trade put at the head of the channel
send_front(queue, open, trade) == IF open THEN <<trade>> \o queue ELSE queue

\* UnboundedSender::send: the trade is queued while the receiver lives, and
\* handed back in an Err otherwise
send(queue, open, trade) == IF open THEN Append(queue, trade) ELSE queue

\* The "Send trades" loop, run to its end
RECURSIVE send_all(_, _, _)
send_all(queue, open, trades) ==
    IF trades = <<>> THEN queue
    ELSE send_all(send(queue, open, Head(trades)), open, Tail(trades))

AllIdle == \A t \in Tasks : tasks[t].pc = "idle"

\* MatchingEngine::submit_order run from its first line to its return with no
\* other call in between, on the order it is given (whose id is the next one)
submit_order_of(order) ==
    /\ AllIdle
    /\ LET symbol == order.symbol
           g == get_or_create_orderbook(orderbooks, symbol)
           r == submit_local(g.book, order)
       IN /\ orderbooks' = orderbooks_insert(g.orderbooks, symbol, r.book)
          /\ channel' = send_all(channel, receiver_open, r.trades)
          /\ last' = SubmitCall(symbol, r)
    /\ nextId' = nextId + 1
    /\ applied' = Append(applied, nextId)
    /\ UNCHANGED risk_vars
    /\ UNCHANGED backtest_vars
    /\ UNCHANGED <<tasks, cancelled, receiver_open>>

\* submit_order on the order that Order::new makes next
submit_order(symbol, side, order_type, price, quantity) ==
    submit_order_of(Order_new(nextId, symbol, side, order_type, price, quantity))

\* submit_order, one of at most MaxOrders calls
SubmitOrderOfType(symbol, side, order_type, price, quantity) ==
    /\ nextId <= MaxOrders
    /\ submit_order(symbol, side, order_type, price, quantity)

\* submit_order of a limit order
SubmitOrder(symbol, side, price, quantity) ==
    SubmitOrderOfType(symbol, side, "Limit", price, quantity)

\* cancel_in_book that looks on the Buy side only
cancel_in_book_buy_only(book, order_id) ==
    LET b == remove_order(book, order_id, "Buy")
    IN IF b.found # <<>> THEN [book |-> b.book, ok |-> TRUE]
       ELSE [book |-> book, ok |-> FALSE]

\* cancel_order's two remove_order calls on the book it holds by get_mut: the
\* book after the call and whether an order was found
cancel_in_book(book, order_id) ==
    LET b == remove_order(book, order_id, "Buy")
        s == remove_order(book, order_id, "Sell")
    IN IF b.found # <<>> THEN [book |-> b.book, ok |-> TRUE]
       ELSE IF s.found # <<>> THEN [book |-> s.book, ok |-> TRUE]
       ELSE [book |-> book, ok |-> FALSE]

\* The book of a symbol, empty when the map has none
BookOf(symbol) ==
    IF symbol \in DOMAIN orderbooks THEN orderbooks[symbol] ELSE OrderBook_new(symbol)

\* MatchingEngine::cancel_order; get_mut holds the entry for the whole call.
\* The record of the call keeps the book handed in as seen.
cancel_order(order_id, symbol, seen) ==
    /\ LET r == IF symbol \in DOMAIN orderbooks
                THEN cancel_in_book(orderbooks[symbol], order_id)
                ELSE [book |-> NoBook, ok |-> FALSE]
       IN /\ orderbooks' = IF symbol \in DOMAIN orderbooks
                           THEN [orderbooks EXCEPT ![symbol] = r.book]
                           ELSE orderbooks
          /\ last' = [NoCall EXCEPT !.op = "cancel", !.symbol = symbol,
                                    !.id = order_id, !.ok = r.ok,
                                    !.seen = seen]
          /\ cancelled' = IF r.ok
                          THEN [cancelled EXCEPT ![order_id] =
                                  [count |-> Min(@.count + 1, 2), mark |-> nextId]]
                          ELSE cancelled
    /\ UNCHANGED risk_vars
    /\ UNCHANGED backtest_vars
    /\ UNCHANGED <<channel, nextId, tasks, receiver_open, applied>>

\* cancel_order, recorded without the book it found
CancelOrder(order_id, symbol) == cancel_order(order_id, symbol, NoBook)

\* cancel_order, recorded with the book it found
CancelOrderInBook(order_id, symbol) == cancel_order(order_id, symbol, BookOf(symbol))

\* Calls made one after the other: each returns before the next begins.
Next ==
    \/ \E symbol \in Symbols, side \in Side, price \in Prices, quantity \in Quantities :
          SubmitOrder(symbol, side, price, quantity)
    \/ \E order_id \in OrderIds, symbol \in Symbols :
          CancelOrder(order_id, symbol)

Spec == Init /\ [][Next]_vars

\* Calls made one after the other, with orders of every order type
NextTyped ==
    \/ \E symbol \in Symbols, side \in Side, order_type \in OrderType,
          price \in Prices, quantity \in Quantities :
          SubmitOrderOfType(symbol, side, order_type, price, quantity)
    \/ \E order_id \in OrderIds, symbol \in Symbols :
          CancelOrder(order_id, symbol)

SpecTyped == Init /\ [][NextTyped]_vars

\* The owner of the UnboundedReceiver paired with trade_sender drops it
DropReceiver ==
    /\ AllIdle
    /\ receiver_open
    /\ receiver_open' = FALSE
    /\ last' = [NoCall EXCEPT !.op = "drop"]
    /\ UNCHANGED risk_vars
    /\ UNCHANGED backtest_vars
    /\ UNCHANGED <<orderbooks, channel, nextId, tasks, cancelled, applied>>

\* submit_order calls made one after the other, by a caller that may drop the
\* receiver
NextRecv ==
    \/ \E symbol \in Symbols, side \in Side, price \in Prices, quantity \in Quantities :
          SubmitOrder(symbol, side, price, quantity)
    \/ DropReceiver

SpecRecv == Init /\ [][NextRecv]_vars

\* --------------------------------------------------------------- snapshots

\* OrderBook::get_snapshot, with the value that Utc::now() returns
get_snapshot(book, now) ==
    [symbol |-> book.symbol, bids |-> snapshot_bids(book),
     asks |-> snapshot_asks(book), timestamp |-> now]

\* get_orderbook_snapshot with DashMap::remove in the place of DashMap::get
get_orderbook_snapshot_remove(books, symbol, now) ==
    [orderbooks |-> MapRemove(books, symbol),
     snapshot |-> IF symbol \in DOMAIN books
                  THEN <<get_snapshot(books[symbol], now)>>
                  ELSE <<>>]

\* MatchingEngine::get_orderbook_snapshot: the map after the call (it is only
\* read) and the Option returned
get_orderbook_snapshot(books, symbol, now) ==
    [orderbooks |-> books,
     snapshot |-> IF symbol \in DOMAIN books
                  THEN <<get_snapshot(books[symbol], now)>>
                  ELSE <<>>]

\* The values that Utc::now() returns
Times == 1..MaxClock

\* A call of get_orderbook_snapshot while no other call runs. The record of
\* the call keeps the book it read and, when the call before it was a
\* get_orderbook_snapshot of the same symbol, what that call returned.
GetSnapshot(symbol, now) ==
    /\ AllIdle
    /\ LET r == get_orderbook_snapshot(orderbooks, symbol, now)
           again == last.op = "snapshot" /\ last.symbol = symbol
       IN /\ orderbooks' = r.orderbooks
          /\ last' = [NoCall EXCEPT !.op = "snapshot", !.symbol = symbol,
                                    !.ok = (r.snapshot # <<>>),
                                    !.seen = BookOf(symbol),
                                    !.snapshot = r.snapshot,
                                    !.repeated = again,
                                    !.previous = IF again THEN last.snapshot ELSE <<>>]
    /\ UNCHANGED risk_vars
    /\ UNCHANGED backtest_vars
    /\ UNCHANGED <<channel, nextId, tasks, cancelled, receiver_open, applied>>

\* The caller of test_orderbook_snapshot: limit orders of quantity 1, in turn
\* a buy one price below the last buy and a sell one price above the last
\* sell, the first buy at SnapLevels and the first sell at SnapLevels + 1
QuoteLadder(symbol) ==
    /\ nextId <= 2 * SnapLevels
    /\ IF nextId % 2 = 1
       THEN submit_order(symbol, "Buy", "Limit", SnapLevels - (nextId \div 2), 1)
       ELSE submit_order(symbol, "Sell", "Limit", SnapLevels + (nextId \div 2), 1)

\* The best bid and the best ask of the finished ladder
TouchPrices == {SnapLevels, SnapLevels + 1}

\* Up to TouchOrders further limit orders at the best bid or the best ask of
\* the finished ladder: they queue behind the order there or trade with it.
SubmitAtTouch(symbol, side, price, quantity) ==
    /\ nextId > 2 * SnapLevels
    /\ nextId <= 2 * SnapLevels + TouchOrders
    /\ submit_order(symbol, side, "Limit", price, quantity)

NextSnap ==
    \/ \E symbol \in Symbols : QuoteLadder(symbol)
    \/ \E symbol \in Symbols, side \in Side, price \in TouchPrices,
          quantity \in Quantities :
          SubmitAtTouch(symbol, side, price, quantity)
    \/ \E symbol \in Symbols, now \in Times : GetSnapshot(symbol, now)

SpecSnap == Init /\ [][NextSnap]_vars

\* ------------------------------------------------- orders in any condition
\* The fields of an Order are public: the order handed to submit_order need
\* not come fresh from Order::new. It may carry any status and any
\* filled_quantity up to its quantity.

\* An order as Order::new makes it, then set to a status and a filled_quantity
Order_with(id, symbol, side, price, quantity, filled_quantity, status) ==
    [Order_new(id, symbol, side, "Limit", price, quantity) EXCEPT
        !.filled_quantity = filled_quantity, !.status = status]

SubmitGiven(symbol, side, price, quantity, filled_quantity, status) ==
    /\ nextId <= GivenOrders
    /\ submit_order_of(Order_with(nextId, symbol, side, price, quantity,
                                  filled_quantity, status))

NextGiven ==
    \/ \E symbol \in Symbols, side \in Side, price \in Prices, quantity \in Quantities,
          status \in OrderStatus :
          \E filled_quantity \in {0, quantity} :
              SubmitGiven(symbol, side, price, quantity, filled_quantity, status)
    \/ \E order_id \in OrderIds, symbol \in Symbols :
          CancelOrderInBook(order_id, symbol)

SpecGiven == Init /\ [][NextGiven]_vars

\* ------------------------------------------------- orders that share an id

\* submit_order on an order whose id the caller chose: Order is Clone and its
\* id is a public field, so the same order can be submitted more than once
SubmitWithId(id, symbol, side, price, quantity) ==
    /\ nextId <= MaxOrders
    /\ submit_order_of(Order_with(id, symbol, side, price, quantity, 0, "Pending"))

\* The ids the callers give their orders
SharedIds == {1, 2}

\* Limit orders at two prices and of two sizes, under ids that repeat, and
\* cancels
NextShared ==
    \/ \E id \in SharedIds, symbol \in Symbols, side \in Side,
          price \in {1, MaxPrice}, quantity \in {1, MaxQty} :
          SubmitWithId(id, symbol, side, price, quantity)
    \/ \E order_id \in SharedIds, symbol \in Symbols :
          CancelOrderInBook(order_id, symbol)

SpecShared == Init /\ [][NextShared]_vars

\* ------------------------------------------------------- the engine's symbols

\* MatchingEngine::get_all_symbols: the keys of the map (the Vec it returns
\* lists each once, in the map's iteration order)
get_all_symbols(books) == DOMAIN books

GetAllSymbols ==
    /\ AllIdle
    /\ last' = [NoCall EXCEPT !.op = "symbols", !.ok = TRUE,
                              !.symbols = get_all_symbols(orderbooks)]
    /\ UNCHANGED risk_vars
    /\ UNCHANGED backtest_vars
    /\ UNCHANGED <<orderbooks, channel, nextId, tasks, cancelled, receiver_open,
                   applied>>

\* The symbols the callers name
Markets == {"BTCUSD", "ETHUSD"}

\* Calls on two symbols, one after the other: limit orders of quantity 1 at one
\* price, which fill each other, cancels, snapshots and get_all_symbols
NextSymbols ==
    \/ \E symbol \in Markets, side \in Side :
          SubmitOrder(symbol, side, MaxPrice, 1)
    \/ \E order_id \in OrderIds, symbol \in Markets :
          CancelOrder(order_id, symbol)
    \/ \E symbol \in Markets, now \in Times :
          GetSnapshot(symbol, now)
    \/ GetAllSymbols

SpecSymbols == Init /\ [][NextSymbols]_vars

\* ------------------------------------------------------ the OrderBook alone
\* An OrderBook used directly, as the unit tests of orderbook.rs use it: the
\* book of the symbol stands for the one OrderBook, made by OrderBook::new.

\* book.add_order(Order::new(..)): the order is queued without being matched
BookAddOrder(symbol, side, price, quantity) ==
    /\ AllIdle
    /\ nextId <= MaxOrders
    /\ LET order == Order_new(nextId, symbol, side, "Limit", price, quantity)
       IN /\ orderbooks' = MapInsert(orderbooks, symbol, add_order(BookOf(symbol), order))
          /\ last' = [NoCall EXCEPT !.op = "add_order", !.symbol = symbol,
                                    !.id = nextId, !.ok = TRUE,
                                    !.seen = BookOf(symbol), !.incoming = order]
    /\ nextId' = nextId + 1
    /\ UNCHANGED risk_vars
    /\ UNCHANGED backtest_vars
    /\ UNCHANGED <<channel, tasks, cancelled, receiver_open, applied>>

\* book.get_best_bid(), book.get_best_ask() and book.get_spread()
BookQuotes(symbol) ==
    /\ AllIdle
    /\ last' = [NoCall EXCEPT !.op = "quotes", !.symbol = symbol, !.ok = TRUE,
                              !.seen = BookOf(symbol),
                              !.quotes = <<[best_bid |-> get_best_bid(BookOf(symbol)),
                                            best_ask |-> get_best_ask(BookOf(symbol)),
                                            spread |-> get_spread(BookOf(symbol))]>>]
    /\ UNCHANGED risk_vars
    /\ UNCHANGED backtest_vars
    /\ UNCHANGED <<orderbooks, channel, nextId, tasks, cancelled, receiver_open,
                   applied>>

NextBook ==
    \/ \E symbol \in Symbols, side \in Side, price \in Prices, quantity \in Quantities :
          BookAddOrder(symbol, side, price, quantity)
    \/ \E symbol \in Symbols : BookQuotes(symbol)

SpecBook == Init /\ [][NextBook]_vars

\* ------------------------------------------- RiskManager calls, one at a time

AllRiskIdle == \A t \in RiskTasks : risk_tasks[t].pc = "idle"

\* Whether a task is inside update_position with the entry of the symbol:
\* it holds the entry's lock from entry() until it returns
EntryLocked(symbol) ==
    \E t \in RiskTasks : risk_tasks[t].pc = "update" /\ risk_tasks[t].symbol = symbol

\* The realized_pnl the position of a symbol shows to a reader: that of a new
\* Position when there is none, and while update_position holds the entry,
\* the one from before that call
realized_pnl_of(symbol) ==
    IF EntryLocked(symbol)
    THEN risk_tasks[CHOOSE t \in RiskTasks :
             risk_tasks[t].pc = "update" /\ risk_tasks[t].symbol = symbol].old_pnl
    ELSE get_position(positions, symbol).position.realized_pnl

\* RiskManager::check_order
CheckOrder(symbol, side, price, quantity) ==
    /\ AllRiskIdle
    /\ LET order == Order_new(0, symbol, side, "Limit", price, quantity)
           r == check_order(positions, daily_pnl, order)
       IN /\ positions' = r.positions
          /\ risk_last' = [NoRiskCall EXCEPT
                             !.op = "check_order", !.order = order,
                             !.result = r.result,
                             !.positions = positions, !.daily_pnl = daily_pnl]
    /\ UNCHANGED <<daily_pnl, risk_tasks, at_reset, updates>>
    /\ UNCHANGED backtest_vars
    /\ UNCHANGED <<orderbooks, channel, nextId, tasks, last, cancelled, receiver_open,
                   applied>>

\* RiskManager::update_position
UpdatePosition(symbol, side, price, quantity) ==
    /\ AllRiskIdle
    /\ updates < MaxUpdates
    /\ LET r == update_position(positions, daily_pnl, symbol, side, price, quantity)
       IN /\ positions' = r.positions
          /\ daily_pnl' = r.daily_pnl
          /\ risk_last' = [NoRiskCall EXCEPT
                             !.op = "update_position",
                             !.order = Order_new(0, symbol, side, "Limit", price, quantity),
                             !.positions = positions, !.daily_pnl = daily_pnl]
    /\ updates' = updates + 1
    /\ UNCHANGED <<risk_tasks, at_reset>>
    /\ UNCHANGED backtest_vars
    /\ UNCHANGED <<orderbooks, channel, nextId, tasks, last, cancelled, receiver_open,
                   applied>>

\* reset_daily_pnl that leaves daily_pnl as it is
reset_daily_pnl_kept(pnl) == pnl

\* RiskManager::reset_daily_pnl
reset_daily_pnl(pnl) == Decimal_ZERO

ResetDailyPnl ==
    /\ daily_pnl' = reset_daily_pnl(daily_pnl)
    /\ at_reset' = [symbol \in RiskSymbols |-> realized_pnl_of(symbol)]
    /\ risk_last' = [NoRiskCall EXCEPT
                       !.op = "reset_daily_pnl",
                       !.positions = positions, !.daily_pnl = daily_pnl]
    /\ UNCHANGED <<positions, risk_tasks, updates>>
    /\ UNCHANGED backtest_vars
    /\ UNCHANGED <<orderbooks, channel, nextId, tasks, last, cancelled, receiver_open,
                   applied>>

CheckCircuitBreaker ==
    /\ risk_last' = [NoRiskCall EXCEPT
                       !.op = "check_circuit_breaker",
                       !.breaker = check_circuit_breaker(daily_pnl),
                       !.positions = positions, !.daily_pnl = daily_pnl]
    /\ UNCHANGED <<positions, daily_pnl, risk_tasks, at_reset, updates>>
    /\ UNCHANGED backtest_vars
    /\ UNCHANGED <<orderbooks, channel, nextId, tasks, last, cancelled, receiver_open,
                   applied>>

NextRisk ==
    \/ \E symbol \in RiskSymbols, side \in Side, price \in {MaxPrice},
          quantity \in Quantities : CheckOrder(symbol, side, price, quantity)
    \/ \E symbol \in RiskSymbols, side \in Side, price \in FillPrices,
          quantity \in FillQuantities : UpdatePosition(symbol, side, price, quantity)
    \/ ResetDailyPnl
    \/ CheckCircuitBreaker

SpecRisk == Init /\ [][NextRisk]_vars

\* ------------------------------------- RiskManager calls, tasks interleaved
\* update_position takes the lock of the symbol's entry, updates the position
\* and computes pnl_change (UpdateBegin), then takes the write lock of
\* daily_pnl, adds pnl_change and returns, which releases both (UpdateAdd).
\* check_order tests the order size and reads the position (CheckSizes), then
\* reads daily_pnl (CheckDailyLoss). reset_daily_pnl and check_circuit_breaker
\* take the lock of daily_pnl once.

UpdateBegin(t, symbol, side, price, quantity) ==
    /\ risk_tasks[t].pc = "idle"
    /\ updates < MaxUpdates
    /\ ~EntryLocked(symbol)
    /\ LET old == get_position(positions, symbol).position
           r == update_position(positions, daily_pnl, symbol, side, price, quantity)
       IN /\ positions' = r.positions
          /\ risk_tasks' = [risk_tasks EXCEPT ![t] =
                 [IdleRiskTask EXCEPT
                    !.pc = "update", !.symbol = symbol,
                    !.old_pnl = old.realized_pnl,
                    !.pnl_change = pnl_change(old, r.positions[symbol]),
                    !.order = Order_new(0, symbol, side, "Limit", price, quantity)]]
    /\ updates' = updates + 1
    /\ UNCHANGED <<daily_pnl, risk_last, at_reset>>
    /\ UNCHANGED backtest_vars
    /\ UNCHANGED <<orderbooks, channel, nextId, tasks, last, cancelled, receiver_open,
                   applied>>

UpdateAdd(t) ==
    /\ risk_tasks[t].pc = "update"
    /\ daily_pnl' = Decimal_add(daily_pnl, risk_tasks[t].pnl_change)
    /\ risk_last' = [NoRiskCall EXCEPT
                       !.op = "update_position", !.order = risk_tasks[t].order]
    /\ risk_tasks' = [risk_tasks EXCEPT ![t] = IdleRiskTask]
    /\ UNCHANGED <<positions, at_reset, updates>>
    /\ UNCHANGED backtest_vars
    /\ UNCHANGED <<orderbooks, channel, nextId, tasks, last, cancelled, receiver_open,
                   applied>>

CheckSizes(t, symbol, side, price, quantity) ==
    /\ risk_tasks[t].pc = "idle"
    /\ LET order == Order_new(0, symbol, side, "Limit", price, quantity)
           g == get_position(positions, symbol)
           sizes == check_order_with(g.position, Decimal_ZERO, order)
       IN IF exceeds(quantity, limits.max_order_size)
          THEN /\ risk_last' = [NoRiskCall EXCEPT
                                  !.op = "check_order", !.order = order,
                                  !.result = sizes]
               /\ UNCHANGED <<positions, risk_tasks>>
          ELSE /\ ~EntryLocked(symbol)
               /\ positions' = g.positions
               /\ IF sizes = "Ok"
                  THEN /\ risk_tasks' = [risk_tasks EXCEPT ![t] =
                              [IdleRiskTask EXCEPT !.pc = "check", !.symbol = symbol,
                                                   !.order = order]]
                       /\ UNCHANGED risk_last
                  ELSE /\ risk_last' = [NoRiskCall EXCEPT
                                          !.op = "check_order", !.order = order,
                                          !.result = sizes]
                       /\ UNCHANGED risk_tasks
    /\ UNCHANGED <<daily_pnl, at_reset, updates>>
    /\ UNCHANGED backtest_vars
    /\ UNCHANGED <<orderbooks, channel, nextId, tasks, last, cancelled, receiver_open,
                   applied>>

CheckDailyLoss(t) ==
    /\ risk_tasks[t].pc = "check"
    /\ risk_last' = [NoRiskCall EXCEPT
                       !.op = "check_order", !.order = risk_tasks[t].order,
                       !.result = IF Decimal_lt(daily_pnl, Decimal_from(-limits.max_daily_loss))
                                  THEN "DailyLoss" ELSE "Ok"]
    /\ risk_tasks' = [risk_tasks EXCEPT ![t] = IdleRiskTask]
    /\ UNCHANGED <<positions, daily_pnl, at_reset, updates>>
    /\ UNCHANGED backtest_vars
    /\ UNCHANGED <<orderbooks, channel, nextId, tasks, last, cancelled, receiver_open,
                   applied>>

NextRiskConc ==
    \/ \E t \in RiskTasks, symbol \in RiskSymbols, side \in Side, price \in {0, MaxPrice},
          quantity \in {1, MaxQty} : UpdateBegin(t, symbol, side, price, quantity)
    \/ \E t \in RiskTasks : UpdateAdd(t)
    \/ \E t \in RiskTasks, symbol \in RiskSymbols, side \in Side, price \in {MaxPrice},
          quantity \in {1, MaxQty} : CheckSizes(t, symbol, side, price, quantity)
    \/ \E t \in RiskTasks : CheckDailyLoss(t)
    \/ ResetDailyPnl
    \/ CheckCircuitBreaker

SpecRiskConc == Init /\ [][NextRiskConc]_vars

\* ------------------------------------------------------ BacktestEngine calls

\* BacktestEngine::new: a fresh engine takes the place of the one in use
BacktestNew(initial_capital) ==
    /\ backtest' = BacktestEngine_new(Decimal_from(initial_capital))
    /\ signals' = <<>>
    /\ UNCHANGED risk_vars
    /\ UNCHANGED <<orderbooks, channel, nextId, tasks, last, cancelled, receiver_open,
                   applied>>

\* execute_signal, one of at most MaxSignals calls on an engine
ExecuteSignal(symbol, side, price, quantity) ==
    /\ Len(signals) < MaxSignals
    /\ LET r == execute_signal(backtest, symbol, side, Decimal_from(price),
                               Decimal_from(quantity))
       IN /\ backtest' = r.engine
          /\ signals' = Append(signals,
                [side |-> side, price |-> price, quantity |-> quantity,
                 found |-> backtest, result |-> r.result])
    /\ UNCHANGED risk_vars
    /\ UNCHANGED <<orderbooks, channel, nextId, tasks, last, cancelled, receiver_open,
                   applied>>

NextBacktest ==
    \/ \E initial_capital \in 1..MaxCapital : BacktestNew(initial_capital)
    \/ \E symbol \in Symbols, side \in Side, price \in FillPrices,
          quantity \in Quantities :
          ExecuteSignal(symbol, side, price, quantity)

SpecBacktest == Init /\ [][NextBacktest]_vars

\* ------------------------------------------------- submit_order, step by step
\* submit_order touches the shared map twice, in get_or_create_orderbook (the
\* entry is locked, created on a miss, cloned, unlocked) and in insert, and the
\* channel once per trade; what lies between works on the task's own clone.
\* Tasks of a multi-threaded executor interleave at these points.

\* submit_order up to the clone of the book, with the match, the classification
\* and the residual insertion done on the clone
SubmitBegin(t, symbol, side, price, quantity) ==
    /\ tasks[t].pc = "idle"
    /\ nextId <= MaxOrders
    /\ LET order == Order_new(nextId, symbol, side, "Limit", price, quantity)
           g == get_or_create_orderbook(orderbooks, symbol)
           r == submit_local(g.book, order)
       IN /\ orderbooks' = g.orderbooks
          /\ tasks' = [tasks EXCEPT ![t] =
                [pc |-> "store", symbol |-> symbol, seen |-> r.seen, book |-> r.book,
                 incoming |-> r.incoming, matched |-> r.matched,
                 final_order |-> r.final_order, trades |-> r.trades,
                 unsent |-> r.trades]]
    /\ nextId' = nextId + 1
    /\ UNCHANGED risk_vars
    /\ UNCHANGED backtest_vars
    /\ UNCHANGED <<channel, last, cancelled, receiver_open, applied>>

\* The return of submit_order
Return(t) ==
    /\ tasks' = [tasks EXCEPT ![t] = IdleTask]
    /\ last' = SubmitCall(tasks[t].symbol, tasks[t])

\* self.orderbooks.insert(symbol, book)
SubmitStore(t) ==
    /\ tasks[t].pc = "store"
    /\ orderbooks' = orderbooks_insert(orderbooks, tasks[t].symbol, tasks[t].book)
    /\ IF tasks[t].unsent = <<>>
       THEN Return(t)
       ELSE /\ tasks' = [tasks EXCEPT ![t].pc = "send"]
            /\ UNCHANGED last
    /\ applied' = Append(applied, tasks[t].incoming.id)
    /\ UNCHANGED risk_vars
    /\ UNCHANGED backtest_vars
    /\ UNCHANGED <<channel, nextId, cancelled, receiver_open>>

\* One turn of the "Send trades" loop
SubmitSend(t) ==
    /\ tasks[t].pc = "send"
    /\ channel' = send(channel, receiver_open, Head(tasks[t].unsent))
    /\ IF Tail(tasks[t].unsent) = <<>>
       THEN Return(t)
       ELSE /\ tasks' = [tasks EXCEPT ![t].unsent = Tail(@)]
            /\ UNCHANGED last
    /\ UNCHANGED risk_vars
    /\ UNCHANGED backtest_vars
    /\ UNCHANGED <<orderbooks, nextId, cancelled, receiver_open, applied>>

\* Calls made by concurrent tasks
NextConc ==
    \/ \E t \in Tasks, symbol \in Symbols, side \in Side, price \in Prices,
          quantity \in Quantities :
          SubmitBegin(t, symbol, side, price, quantity)
    \/ \E t \in Tasks : SubmitStore(t)
    \/ \E t \in Tasks : SubmitSend(t)
    \/ \E order_id \in OrderIds, symbol \in Symbols :
          CancelOrder(order_id, symbol)

SpecConc == Init /\ [][NextConc]_vars

\* ------------------------------------------- tasks on different symbols
\* Two tasks, each calling submit_order and cancel_order for a symbol of its
\* own, interleaved at the points where submit_order touches the shared map
\* and the channel.

MarketTasks == {1, 2}

\* The symbol a task trades
MarketOf(t) == IF t = 1 THEN "BTCUSD" ELSE "ETHUSD"

\* cancel_order by a task, between two of its submit_order calls
CancelByTask(t, order_id) ==
    /\ tasks[t].pc = "idle"
    /\ CancelOrder(order_id, MarketOf(t))

\* Limit orders of quantity 1 at one price, which fill each other
NextMarkets ==
    \/ \E t \in MarketTasks, side \in Side :
          SubmitBegin(t, MarketOf(t), side, MaxPrice, 1)
    \/ \E t \in MarketTasks : SubmitStore(t)
    \/ \E t \in MarketTasks : SubmitSend(t)
    \/ \E t \in MarketTasks, order_id \in OrderIds : CancelByTask(t, order_id)

SpecMarkets == Init /\ [][NextMarkets]_vars

\* ------------------------------------------------------------------ claims

\* The orders queued on one ladder, and in a book
LadderOrders(ladder) ==
    UNION {{ladder[p][i] : i \in 1..Len(ladder[p])} : p \in DOMAIN ladder}
RestingOrders(book) == LadderOrders(book.bids) \cup LadderOrders(book.asks)
RestingIds(book) == {o.id : o \in RestingOrders(book)}
Books == {orderbooks[s] : s \in DOMAIN orderbooks}

\* The ladder an incoming order is matched against, and the one it rests on
OppositeLadder(book, side) == IF side = "Buy" THEN book.asks ELSE book.bids
OwnLadder(book, side) == IF side = "Buy" THEN book.bids ELSE book.asks

\* The id of the resting order of a trade, given the side of the incoming order
PassiveId(trade, side) ==
    IF side = "Buy" THEN trade.sell_order_id ELSE trade.buy_order_id

\* The resting order with an id, in a book that holds it
RestingOrder(book, id) == CHOOSE o \in RestingOrders(book) : o.id = id

\* The quantity traded by the trades before the k-th that satisfy Test
TradedBefore(trades, k, Test(_)) ==
    SeqSum([j \in 1..(k - 1) |-> IF Test(trades[j]) THEN trades[j].quantity ELSE 0])

\* The total remaining quantity queued at a level
LevelRemaining(orders) ==
    SeqSum([i \in 1..Len(orders) |-> remaining_quantity(orders[i])])

\* C1: after every completed submit_order, in any sequence of submit_order and
\* cancel_order calls, the best bid of every book is strictly below its best ask
\* whenever both sides hold orders.
C1_NoCrossedBook ==
    \A b \in Books :
        (get_best_bid(b) # <<>> /\ get_best_ask(b) # <<>>)
            => get_best_bid(b)[1] < get_best_ask(b)[1]

\* A submit matched, rested its residual, and left orders on both sides.
C1_Witness ==
    /\ last.op = "submit"
    /\ last.trades # <<>>
    /\ ~is_fully_filled(last.final_order)
    /\ last.symbol \in DOMAIN orderbooks
    /\ orderbooks[last.symbol] = last.book
    /\ DOMAIN last.book.bids # {}
    /\ DOMAIN last.book.asks # {}

\* C2: while a submit_order stands between its read of the symbol's book and
\* the insert that stores it back, it holds the book exclusively, so the book
\* in the map is still the one the task read: no other submit_order or
\* cancel_order on the symbol has changed it in between.
C2_BookHeldExclusively ==
    \A t \in Tasks :
        tasks[t].pc = "store" => orderbooks[tasks[t].symbol] = tasks[t].seen

\* The position of the order with an id in a queue that holds it
QueueIndex(orders, id) == CHOOSE i \in 1..Len(orders) : orders[i].id = id

\* Ids are drawn in submission order, so a queue in insertion order has
\* strictly increasing ids.
InInsertionOrder(orders) ==
    \A i, j \in 1..Len(orders) : i < j => orders[i].id < orders[j].id

\* C3: every price level keeps its orders in insertion order, whatever
\* add_order, match_order and remove_order did to it, and when a trade of a
\* submit references a resting order, every order queued before it at that
\* level was completely filled by the earlier trades of that submit and has
\* left the book.
C3_PriceTimePriority ==
    /\ \A b \in Books :
          /\ \A p \in DOMAIN b.bids : InInsertionOrder(b.bids[p])
          /\ \A p \in DOMAIN b.asks : InInsertionOrder(b.asks[p])
    /\ last.op = "submit" =>
          \A k \in 1..Len(last.trades) :
             LET id == PassiveId(last.trades[k], last.incoming.side)
                 resting == RestingOrder(last.seen, id)
                 queue == OppositeLadder(last.seen, last.incoming.side)[resting.price]
             IN \A i \in 1..(QueueIndex(queue, id) - 1) :
                   /\ TradedBefore(last.trades, k,
                         LAMBDA tr : PassiveId(tr, last.incoming.side) = queue[i].id)
                        = remaining_quantity(queue[i])
                   /\ queue[i].id \notin RestingIds(last.book)

\* A submit traded with the second order of a level after the first.
C3_Witness ==
    /\ last.op = "submit"
    /\ \E k \in 1..Len(last.trades) :
          LET id == PassiveId(last.trades[k], last.incoming.side)
              resting == RestingOrder(last.seen, id)
              queue == OppositeLadder(last.seen, last.incoming.side)[resting.price]
          IN QueueIndex(queue, id) > 1

\* C4: every trade of a submit has the limit price of the resting order it was
\* matched against, also when the incoming limit is strictly better.
C4_PassivePrice ==
    last.op = "submit" =>
        \A k \in 1..Len(last.trades) :
            last.trades[k].price =
                RestingOrder(last.seen,
                             PassiveId(last.trades[k], last.incoming.side)).price

\* A submit traded at a price that is not its own limit: the resting order's
\* price was strictly better for it.
C4_Witness ==
    /\ last.op = "submit"
    /\ \E k \in 1..Len(last.trades) : last.trades[k].price # last.incoming.price

\* C5: the k-th trade of a submit has quantity min(incoming remaining, resting
\* remaining) taken just before it, which is positive; the incoming order's
\* filled quantity on return is the sum of the trades' quantities; each resting
\* order's filled quantity grew by exactly the quantities of the trades that
\* reference it; and 0 <= filled <= total for the returned order and for every
\* resting order.
C5_Conservation ==
    /\ \A b \in Books : \A o \in RestingOrders(b) :
          0 <= o.filled_quantity /\ o.filled_quantity <= o.quantity
    /\ last.op = "submit" =>
          LET side == last.incoming.side
              n == Len(last.trades)
          IN /\ \A k \in 1..n :
                   LET id == PassiveId(last.trades[k], side)
                       incoming_rem == remaining_quantity(last.incoming)
                                       - TradedBefore(last.trades, k, LAMBDA tr : TRUE)
                       resting_rem == remaining_quantity(RestingOrder(last.seen, id))
                                      - TradedBefore(last.trades, k,
                                           LAMBDA tr : PassiveId(tr, side) = id)
                   IN /\ last.trades[k].quantity = Min(incoming_rem, resting_rem)
                      /\ last.trades[k].quantity > 0
             /\ last.matched.filled_quantity =
                   last.incoming.filled_quantity
                   + TradedBefore(last.trades, n + 1, LAMBDA tr : TRUE)
             /\ 0 <= last.final_order.filled_quantity
             /\ last.final_order.filled_quantity <= last.final_order.quantity
             /\ \A o \in RestingOrders(last.seen) :
                   LET traded == TradedBefore(last.trades, n + 1,
                                    LAMBDA tr : PassiveId(tr, side) = o.id)
                   IN IF o.id \in RestingIds(last.book)
                      THEN RestingOrder(last.book, o.id).filled_quantity
                              = o.filled_quantity + traded
                      ELSE o.filled_quantity + traded = o.quantity

\* A submit made two trades and left a resting order partially filled.
C5_Witness ==
    /\ last.op = "submit"
    /\ Len(last.trades) >= 2
    /\ \E o \in RestingOrders(last.book) :
          /\ o.id # last.incoming.id
          /\ 0 < o.filled_quantity
          /\ o.filled_quantity < o.quantity

\* Price a is strictly better than price b for an incoming order of this side
Better(side, a, b) == IF side = "Buy" THEN a < b ELSE a > b

\* C6: a Buy trades only at ask levels <= its limit and a Sell only at bid
\* levels >= its limit; the trades of a submit come best price first; and a
\* trade is made at a level only when every strictly better level of the
\* opposite side was emptied by the earlier trades.
C6_PricePriority ==
    last.op = "submit" =>
        LET side == last.incoming.side
            opposite == OppositeLadder(last.seen, side)
        IN \A k \in 1..Len(last.trades) :
              LET price == last.trades[k].price
              IN /\ price \in DOMAIN opposite
                 /\ IF side = "Buy" THEN price <= last.incoming.price
                                    ELSE price >= last.incoming.price
                 /\ \A j \in 1..(k - 1) :
                       ~Better(side, price, last.trades[j].price)
                 /\ \A p \in DOMAIN opposite :
                       Better(side, p, price) =>
                          TradedBefore(last.trades, k, LAMBDA tr : tr.price = p)
                             = LevelRemaining(opposite[p])

\* A Sell traded at two bid levels, the higher bid first.
C6_Witness ==
    /\ last.op = "submit"
    /\ last.incoming.side = "Sell"
    /\ Len(last.trades) = 2
    /\ last.trades[1].price > last.trades[2].price

\* C7: the order submit_order returns is Filled when fully filled,
\* PartiallyFilled when 0 < filled < total and Open when filled = 0, and it is
\* the last order of its own side's queue at its limit price in the stored book
\* exactly when it is not fully filled (a fully filled order rests nowhere).
C7_SubmitClassification ==
    last.op = "submit" =>
        LET f == last.final_order
            own == OwnLadder(last.book, f.side)
            rests == /\ f.price \in DOMAIN own
                     /\ own[f.price][Len(own[f.price])] = f
        IN /\ orderbooks[last.symbol] = last.book
           /\ f.filled_quantity = f.quantity => f.status = "Filled"
           /\ (0 < f.filled_quantity /\ f.filled_quantity < f.quantity)
                 => f.status = "PartiallyFilled"
           /\ f.filled_quantity = 0 => f.status = "Open"
           /\ rests <=> f.filled_quantity # f.quantity
           /\ f.filled_quantity = f.quantity => f.id \notin RestingIds(last.book)
           /\ Cardinality({o \in RestingOrders(last.book) : o.id = f.id})
                 = IF f.filled_quantity = f.quantity THEN 0 ELSE 1

\* A submit was partially filled and its residual rests.
C7_Witness ==
    /\ last.op = "submit"
    /\ last.final_order.status = "PartiallyFilled"
    /\ last.final_order \in RestingOrders(orderbooks[last.symbol])

\* An order obeys the status law
StatusLaw(o) ==
    /\ o.filled_quantity = o.quantity <=> o.status = "Filled"
    /\ (0 < o.filled_quantity /\ o.filled_quantity < o.quantity)
          <=> o.status = "PartiallyFilled"

\* C8: every order the engine holds, the order a submit returned and every
\* order resting in a book, has filled = total iff it is Filled and
\* 0 < filled < total iff it is PartiallyFilled.
C8_StatusLaw ==
    /\ last.op = "submit" => StatusLaw(last.final_order)
    /\ \A b \in Books : \A o \in RestingOrders(b) : StatusLaw(o)

\* A trade references the order id
References(trade, id) == trade.buy_order_id = id \/ trade.sell_order_id = id

\* The other order of a trade that references id
Counterparty(trade, id) ==
    IF trade.buy_order_id = id THEN trade.sell_order_id ELSE trade.buy_order_id

\* Every trade that references a cancelled id was made by a submit_order called
\* before the cancel returned: its counterparty was drawn before the mark.
NoLaterTrade(id) ==
    \A i \in 1..Len(channel) :
        References(channel[i], id) =>
            Counterparty(channel[i], id) < cancelled[id].mark

\* A cancelled id rests at no price level and no snapshot level counts it.
NotInBook(id) ==
    \A b \in Books :
        /\ id \notin RestingIds(b)
        /\ \A i \in 1..Len(snapshot_bids(b)) :
              snapshot_bids(b)[i].quantity =
                 LevelRemaining(SelectSeq(b.bids[snapshot_bids(b)[i].price],
                                          LAMBDA o : o.id # id))
        /\ \A i \in 1..Len(snapshot_asks(b)) :
              snapshot_asks(b)[i].quantity =
                 LevelRemaining(SelectSeq(b.asks[snapshot_asks(b)[i].price],
                                          LAMBDA o : o.id # id))

\* C9: once cancel_order(id) has returned success, no trade of a submit_order
\* called afterwards references id as buy_order_id or sell_order_id.
C9_NoLaterTrade ==
    \A id \in OrderIds : cancelled[id].count > 0 => NoLaterTrade(id)

\* C9 in full: after a successful cancel_order(id) no later submit_order trades
\* with id, id rests at no price level, no snapshot level counts its quantity,
\* and no further cancel_order(id) succeeds. It holds of calls that do not
\* overlap (Spec).
C9_CancelRemoves ==
    \A id \in OrderIds :
        cancelled[id].count > 0 =>
            /\ NoLaterTrade(id)
            /\ NotInBook(id)
            /\ cancelled[id].count <= 1

\* C10: when cancel_order(id) has succeeded and every submit_order that was in
\* flight has returned, id rests in no book.
C10_CancelAtomic ==
    \A id \in OrderIds :
        (cancelled[id].count > 0 /\ AllIdle) =>
            \A b \in Books : id \notin RestingIds(b)

\* The ids of the orders queued on one ladder
LadderIds(ladder) == {o.id : o \in LadderOrders(ladder)}

\* C11: a cancel_order call returns an error exactly when the symbol has no
\* book or no order with the id rests on either side of it (an id that was
\* filled and removed included), and then every book, the set of known
\* symbols and the channel are as before the call. A call that succeeds takes
\* the order from the Buy side when the id rests there, from the Sell side
\* otherwise, and leaves everything else in place.
C11_CancelError ==
    [][last'.op = "cancel" =>
         LET symbol == last'.symbol
             id == last'.id
             resting == /\ symbol \in DOMAIN orderbooks
                        /\ id \in RestingIds(orderbooks[symbol])
         IN /\ last'.ok <=> resting
            /\ ~last'.ok => /\ orderbooks' = orderbooks
                            /\ channel' = channel
            /\ last'.ok =>
                 LET before == orderbooks[symbol]
                     after == orderbooks'[symbol]
                 IN /\ DOMAIN orderbooks' = DOMAIN orderbooks
                    /\ \A s \in DOMAIN orderbooks \ {symbol} :
                          orderbooks'[s] = orderbooks[s]
                    /\ IF id \in LadderIds(before.bids)
                       THEN /\ LadderOrders(after.bids) =
                                  {o \in LadderOrders(before.bids) : o.id # id}
                            /\ after.asks = before.asks
                       ELSE /\ LadderOrders(after.asks) =
                                  {o \in LadderOrders(before.asks) : o.id # id}
                            /\ after.bids = before.bids]_vars

\* cancel_order has failed on an id that was submitted, never cancelled and is
\* no longer in the book: it was filled and removed.
C11_Witness ==
    /\ last.op = "cancel"
    /\ ~last.ok
    /\ last.id < nextId
    /\ cancelled[last.id].count = 0
    /\ last.symbol \in DOMAIN orderbooks
    /\ RestingOrders(orderbooks[last.symbol]) # {}

\* cancel_order has failed on a symbol that has no book.
C11_NoBook ==
    /\ last.op = "cancel"
    /\ ~last.ok
    /\ last.symbol \notin DOMAIN orderbooks

\* The id of the incoming order of a trade. A resting order was submitted
\* before the order that trades with it, and Order::new draws ids in
\* submission order, so the incoming order has the larger id.
AggressorId(trade) ==
    IF trade.buy_order_id > trade.sell_order_id
    THEN trade.buy_order_id
    ELSE trade.sell_order_id

\* The trades on the channel that a submit_order of the order id pushed
PushedBy(id) == SelectSeq(channel, LAMBDA trade : AggressorId(trade) = id)

\* C12: while the receiver is open, the trades a submit_order call has pushed
\* onto the channel when it returns are the trades of the list match_order
\* returned for it, in the order of the list and each once; a call that
\* matched nothing pushed nothing.
C12_TradesPublished ==
    (receiver_open /\ last.op = "submit") =>
        /\ PushedBy(last.id) = last.trades
        /\ last.trades =
              match_order(last.seen, [last.incoming EXCEPT !.status = "Open"]).trades

\* A submit_order matched two resting orders and pushed two trades.
C12_Witness ==
    /\ receiver_open
    /\ last.op = "submit"
    /\ Len(last.trades) >= 2
    /\ PushedBy(last.id) = last.trades

\* The place of a submitted order in the order in which the books were stored
AppliedIndex(id) == CHOOSE i \in 1..Len(applied) : applied[i] = id

\* C13: in every interleaving of submit_order calls on a symbol, the trades
\* are on the channel in the order in which their matches were applied to the
\* book: no trade of a submit whose book was stored later stands before a
\* trade of a submit whose book was stored earlier.
C13_PublicationOrder ==
    \A i, j \in 1..Len(channel) :
        i < j => AppliedIndex(AggressorId(channel[i])) <=
                    AppliedIndex(AggressorId(channel[j]))

\* C14: a submit_order whose sends fail because the receiver was dropped
\* returns Ok with the final order it would have returned had the sends
\* succeeded, and the book in the map keeps the effects of the match: the
\* resting orders' fills and prunings and the incoming order's residual. The
\* failed sends add nothing to the channel and nothing is rolled back.
C14_SendFailureIgnored ==
    (last.op = "submit" /\ ~receiver_open) =>
        LET m == match_order(last.seen, [last.incoming EXCEPT !.status = "Open"])
        IN /\ last.ok
           /\ last.final_order = classify(m.order)
           /\ orderbooks[last.symbol] = rest_residual(m.book, last.final_order)
           /\ PushedBy(last.id) = <<>>

\* With the receiver dropped, a submit_order matched a resting order and
\* rested its residual; its trade is not on the channel.
C14_Witness ==
    /\ ~receiver_open
    /\ last.op = "submit"
    /\ last.trades # <<>>
    /\ ~is_fully_filled(last.final_order)
    /\ orderbooks[last.symbol] # last.seen
    /\ PushedBy(last.id) = <<>>

\* The quantity of the order id that later incoming orders have traded with,
\* by the trades on the channel
PassiveFills(id) ==
    SeqSum([i \in 1..Len(channel) |->
               IF References(channel[i], id) /\ AggressorId(channel[i]) # id
               THEN channel[i].quantity ELSE 0])

\* C15: when a submit_order(A) has returned and no call is in flight, the book
\* that a submit_order(B) called now on the same symbol would read and match
\* against holds A's residual and A's fills: A rests in it with what its
\* returned order had remaining, less what later incoming orders have traded
\* with it since, unless A was filled or cancelled; and all trades of A are on
\* the channel already, before any trade B will push.
C15_SeesEarlierSubmit ==
    (AllIdle /\ last.op = "submit" /\ cancelled[last.id].count = 0) =>
        LET left == remaining_quantity(last.final_order) - PassiveFills(last.id)
        IN /\ left > 0 =>
                \E o \in RestingOrders(orderbooks[last.symbol]) :
                    o.id = last.id /\ remaining_quantity(o) = left
           /\ PushedBy(last.id) = last.trades

\* The quantity that the trades of a list take from the resting order id, for
\* an incoming order of the given side
TakenFrom(trades, side, id) ==
    SeqSum([k \in 1..Len(trades) |->
               IF PassiveId(trades[k], side) = id THEN trades[k].quantity ELSE 0])

\* The book after is the book before with a submit applied whole: every
\* resting order carries the fills of the trades (and is gone when they fill
\* it), the incoming order rests with its fills when it has quantity left,
\* and nothing else is in the book.
AppliedWhole(before, after, incoming, trades) ==
    LET side == incoming.side
        taken(o) == TakenFrom(trades, side, o.id)
        kept == {[o EXCEPT !.filled_quantity = @ + taken(o)] :
                    o \in {x \in RestingOrders(before) :
                              remaining_quantity(x) > taken(x)}}
        filled == SeqSum([k \in 1..Len(trades) |-> trades[k].quantity])
        residual == IF filled < incoming.quantity
                    THEN {o \in RestingOrders(after) : o.id = incoming.id}
                    ELSE {}
    IN /\ RestingOrders(after) = kept \cup residual
       /\ filled < incoming.quantity =>
             \E o \in residual : /\ o.filled_quantity = filled
                                 /\ o.side = side
                                 /\ o.price = incoming.price

\* C16: in every interleaving, the book that get_orderbook_snapshot,
\* cancel_order or another submit_order sees changes under a submit_order in
\* one step only, from a book without any of its effects to the book with its
\* match and its residual insertion together: the call's first step leaves
\* every book as it is (a missing book is created empty), its insert stores
\* a book with the fills and the residual applied whole, and its sends change
\* no book.
C16_NoPartialBook ==
    [][\A t \in Tasks :
         /\ (tasks[t].pc = "idle" /\ tasks'[t].pc = "store") =>
               /\ \A s \in DOMAIN orderbooks : orderbooks'[s] = orderbooks[s]
               /\ \A s \in DOMAIN orderbooks' \ DOMAIN orderbooks :
                     orderbooks'[s] = OrderBook_new(s)
         /\ (tasks[t].pc = "store" /\ tasks'[t].pc # "store") =>
               /\ AppliedWhole(tasks[t].seen, orderbooks'[tasks[t].symbol],
                               tasks[t].incoming, tasks[t].trades)
               /\ \A s \in DOMAIN orderbooks \ {tasks[t].symbol} :
                     orderbooks'[s] = orderbooks[s]
         /\ (tasks[t].pc = "send" /\ tasks'[t] # tasks[t]) =>
               orderbooks' = orderbooks]_vars

\* A submit_order has stored its book and not yet sent its trades: the book in
\* the map holds both the fill of the resting order and the residual.
C16_Witness ==
    \E t \in Tasks :
        /\ tasks[t].pc = "send"
        /\ ~is_fully_filled(tasks[t].final_order)
        /\ orderbooks[tasks[t].symbol] = tasks[t].book
        /\ tasks[t].final_order.id \in RestingIds(orderbooks[tasks[t].symbol])
        /\ \E o \in RestingOrders(tasks[t].seen) :
              o.id \notin RestingIds(orderbooks[tasks[t].symbol])

\* Every level of the ladder of a side holds at least one order, and every
\* order queued at a level is of that side and price and has quantity left.
WellFormedLadder(ladder, side) ==
    \A p \in DOMAIN ladder :
        /\ ladder[p] # <<>>
        /\ \A i \in 1..Len(ladder[p]) :
              /\ remaining_quantity(ladder[p][i]) > 0
              /\ ladder[p][i].price = p
              /\ ladder[p][i].side = side

\* C17: in every book, after every call, a price is a key of a side exactly
\* when its queue holds an order, and every queued order has remaining
\* quantity above zero: match_order removes the orders it fills and
\* remove_order the order it cancels, and both remove a level when they empty
\* it.
C17_BookStructure ==
    \A b \in Books :
        /\ WellFormedLadder(b.bids, "Buy")
        /\ WellFormedLadder(b.asks, "Sell")

\* Levels have been emptied both ways: a cancel_order has removed the last
\* order of its level, after a submit_order had filled a resting order.
C17_Witness ==
    /\ last.op = "cancel"
    /\ last.ok
    /\ channel # <<>>
    /\ RestingOrders(orderbooks[last.symbol]) = {}

\* C18: a submit_order of a Market order trades against the opposite side,
\* best price first, until the order is filled or the opposite side is
\* exhausted, whatever its price field holds: when it returns, the order is
\* fully filled or the opposite side of the book is empty.
C18_MarketOrder ==
    (last.op = "submit" /\ last.incoming.order_type = "Market") =>
        \/ is_fully_filled(last.final_order)
        \/ DOMAIN OppositeLadder(last.book, last.incoming.side) = {}

\* The levels are those of the ladder that come first in the order Before,
\* as many as there are up to 20, in that order, each with the sum of the
\* remaining quantities of the orders queued at its price.
TopLevels(levels, ladder, Before(_, _)) ==
    /\ Len(levels) = Min(20, Cardinality(DOMAIN ladder))
    /\ \A i \in 1..Len(levels) :
          /\ levels[i].price \in DOMAIN ladder
          /\ levels[i].quantity = LevelRemaining(ladder[levels[i].price])
    /\ \A i, j \in 1..Len(levels) :
          i < j => Before(levels[i].price, levels[j].price)
    /\ \A p \in DOMAIN ladder :
          (\A i \in 1..Len(levels) : levels[i].price # p) =>
              \A i \in 1..Len(levels) : Before(levels[i].price, p)

\* C19: get_snapshot returns min(20, number of price levels) levels per side,
\* the bids being the highest bid levels in strictly descending price order
\* and the asks the lowest ask levels in strictly ascending price order, each
\* with the sum of the remaining quantities of the orders queued at its price;
\* the book is the same after the call.
C19_SnapshotContent ==
    (last.op = "snapshot" /\ last.ok) =>
        LET snapshot == last.snapshot[1]
        IN /\ snapshot.symbol = last.symbol
           /\ TopLevels(snapshot.bids, last.seen.bids, LAMBDA p, q : p > q)
           /\ TopLevels(snapshot.asks, last.seen.asks, LAMBDA p, q : p < q)
           /\ last.symbol \in DOMAIN orderbooks
           /\ orderbooks[last.symbol] = last.seen

\* A snapshot was taken of a book of more than 20 levels on each side, whose
\* best bid level queues two orders, one of them partly filled.
C19_Witness ==
    /\ last.op = "snapshot"
    /\ last.ok
    /\ Cardinality(DOMAIN last.seen.bids) > 20
    /\ Cardinality(DOMAIN last.seen.asks) > 20
    /\ Len(last.snapshot[1].bids) = 20
    /\ \E p \in DOMAIN last.seen.bids :
          /\ Len(last.seen.bids[p]) = 2
          /\ last.seen.bids[p][1].filled_quantity > 0

\* C20, as stated: of two consecutive get_orderbook_snapshot calls on a symbol
\* with no submit_order or cancel_order in between, the second returns a
\* value equal to what the first returned.
C20_SnapshotIdempotent ==
    (last.op = "snapshot" /\ last.repeated) => last.snapshot = last.previous

\* What a returned Option<OrderBookSnapshot> holds besides the timestamp
SnapshotContent(option) ==
    IF option = <<>> THEN <<>>
    ELSE <<[symbol |-> option[1].symbol, bids |-> option[1].bids,
            asks |-> option[1].asks]>>

\* C20, amended: of two consecutive get_orderbook_snapshot calls on a symbol
\* with no submit_order or cancel_order in between, both return None or both
\* return a snapshot, with the same symbol, the same bid levels and the same
\* ask levels; the timestamp of each is the time of its own call.
C20_SnapshotContentIdempotent ==
    (last.op = "snapshot" /\ last.repeated) =>
        SnapshotContent(last.snapshot) = SnapshotContent(last.previous)

\* Two consecutive snapshots of a book with orders on both sides returned the
\* same levels under different timestamps.
C20_Witness ==
    /\ last.op = "snapshot"
    /\ last.repeated
    /\ last.ok
    /\ last.snapshot[1].bids # <<>>
    /\ last.snapshot[1].asks # <<>>
    /\ last.previous # <<>>
    /\ last.snapshot[1].timestamp # last.previous[1].timestamp

\* The prices at which a ladder queues at least one order
RestingPrices(ladder) == {o.price : o \in LadderOrders(ladder)}

\* C21: get_best_bid is the highest price with a resting buy, get_best_ask
\* the lowest price with a resting sell, each none on an empty side;
\* get_spread is best_ask - best_bid when both sides hold orders and none
\* when either side is empty.
C21_BestPricesAndSpread ==
    last.op = "quotes" =>
        LET q == last.quotes[1]
            buys == RestingPrices(last.seen.bids)
            sells == RestingPrices(last.seen.asks)
        IN /\ IF buys = {} THEN q.best_bid = <<>>
              ELSE /\ q.best_bid # <<>>
                   /\ q.best_bid[1] \in buys
                   /\ \A p \in buys : p <= q.best_bid[1]
           /\ IF sells = {} THEN q.best_ask = <<>>
              ELSE /\ q.best_ask # <<>>
                   /\ q.best_ask[1] \in sells
                   /\ \A p \in sells : p >= q.best_ask[1]
           /\ IF buys = {} \/ sells = {} THEN q.spread = <<>>
              ELSE q.spread = <<q.best_ask[1] - q.best_bid[1]>>

\* The quotes of a book with a buy at 1 and a sell above it at MaxPrice: the
\* spread is MaxPrice - 1.
C21_Witness ==
    /\ last.op = "quotes"
    /\ last.quotes[1].best_bid = <<1>>
    /\ last.quotes[1].best_ask = <<MaxPrice>>
    /\ last.quotes[1].spread = <<MaxPrice - 1>>

\* The quantity of the position of the order's symbol in a map of positions
held(map, order) == get_position(map, order.symbol).position.quantity

\* The projected position magnitude of an order against a map of positions
projected(map, order) ==
    IF order.side = "Buy"
    THEN Abs(held(map, order) + order.quantity)
    ELSE Abs(held(map, order) - order.quantity)

\* The three tests of the risk check, on the state the check was made in
OrderSizeFails(call) == call.order.quantity > limits.max_order_size
PositionSizeFails(call) == projected(call.positions, call.order) > limits.max_position_size
DailyLossFails(call) ==
    call.daily_pnl.n < (-limits.max_daily_loss) * call.daily_pnl.d

\* C22: check_order rejects iff the order's quantity is above max_order_size,
\* or the projected position magnitude is above max_position_size, or
\* daily_pnl is below -max_daily_loss; it reports the first of the three that
\* holds, and a value exactly at its limit is accepted.
C22_RiskCheckDecision ==
    risk_last.op = "check_order" =>
        risk_last.result =
            IF OrderSizeFails(risk_last) THEN "OrderSize"
            ELSE IF PositionSizeFails(risk_last) THEN "PositionSize"
            ELSE IF DailyLossFails(risk_last) THEN "DailyLoss"
            ELSE "Ok"

\* An order of exactly max_order_size that brings the position to exactly
\* max_position_size is accepted.
C22_Witness ==
    /\ risk_last.op = "check_order"
    /\ risk_last.result = "Ok"
    /\ risk_last.order.quantity = limits.max_order_size
    /\ projected(risk_last.positions, risk_last.order) = limits.max_position_size

\* Equality of two Decimals, and of a Decimal and a quotient of whole numbers
SameDecimal(a, b) == a.n * b.d = b.n * a.d
IsQuotient(a, num, den) == a.n * den = num * a.d

\* The position of the symbol of an update_position call: before it and now
Before(call) == get_position(call.positions, call.order.symbol).position
After(call) == get_position(positions, call.order.symbol).position

\* The Buy rule: quantity old + q, average_price the weighted average of the
\* old average and p, realized_pnl as before
BuyRule(old, new, p, q) ==
    /\ new.quantity = old.quantity + q
    /\ IsQuotient(new.average_price,
                  old.average_price.n * old.quantity + p * q * old.average_price.d,
                  old.average_price.d * (old.quantity + q))
    /\ SameDecimal(new.realized_pnl, old.realized_pnl)

\* The Sell rule: (p - avg) * q more realized_pnl when the old quantity is
\* above 0; quantity less q, and quantity and average_price 0 when that is
\* not above 0, else the average_price as before
SellRule(old, new, p, q) ==
    /\ IF old.quantity > 0
       THEN IsQuotient(Decimal_sub(new.realized_pnl, old.realized_pnl),
                       (p * old.average_price.d - old.average_price.n) * q,
                       old.average_price.d)
       ELSE SameDecimal(new.realized_pnl, old.realized_pnl)
    /\ IF old.quantity - q <= 0
       THEN new.quantity = 0 /\ SameDecimal(new.average_price, Decimal_ZERO)
       ELSE /\ new.quantity = old.quantity - q
            /\ SameDecimal(new.average_price, old.average_price)

\* Buying q at p1 and selling q at p2, from a flat position
RoundTrip(flat, p1, p2, q) ==
    LET new == Position_update(Position_update(flat, "Buy", p1, q), "Sell", p2, q)
    IN /\ new.quantity = 0
       /\ IsQuotient(Decimal_sub(new.realized_pnl, flat.realized_pnl), (p2 - p1) * q, 1)

\* C23: a Buy of q at p gives quantity old + q, average_price
\* (old_avg * old_qty + p * q) / (old_qty + q) and the same realized_pnl; a
\* Sell of q at p adds (p - avg) * q to realized_pnl when the old quantity is
\* above 0, takes q from the quantity, and sets quantity and average_price to
\* 0 when the result is not above 0 (else the average_price stays). Buying q
\* at p1 from flat and selling q at p2 leaves quantity 0 and (p2 - p1) * q
\* more realized_pnl.
C23_PositionUpdateRule ==
    /\ risk_last.op = "update_position" =>
          IF risk_last.order.side = "Buy"
          THEN BuyRule(Before(risk_last), After(risk_last),
                       risk_last.order.price, risk_last.order.quantity)
          ELSE SellRule(Before(risk_last), After(risk_last),
                        risk_last.order.price, risk_last.order.quantity)
    /\ risk_last.op \in {"none", "update_position"} =>
          \A symbol \in RiskSymbols :
              LET flat == get_position(positions, symbol).position
              IN flat.quantity = 0 =>
                    \A p1 \in FillPrices, p2 \in FillPrices, q \in FillQuantities :
                        RoundTrip(flat, p1, p2, q)

\* The sale that closes a position bought at another price: the quantity is 0
\* and the realized_pnl has changed.
C23_Witness ==
    /\ risk_last.op = "update_position"
    /\ risk_last.order.side = "Sell"
    /\ Before(risk_last).quantity = risk_last.order.quantity
    /\ After(risk_last).quantity = 0
    /\ ~SameDecimal(After(risk_last).realized_pnl, Before(risk_last).realized_pnl)
    /\ SameDecimal(Before(risk_last).realized_pnl, Decimal_ZERO)

\* average_price = 0 iff quantity = 0, in every position of a map
FlatIffNoAverage(map) ==
    \A symbol \in DOMAIN map :
        SameDecimal(map[symbol].average_price, Decimal_ZERO) <=> map[symbol].quantity = 0

\* C24, as stated: after any sequence of update_position calls with
\* non-negative prices and positive quantities, every position has
\* average_price = 0 iff quantity = 0, and its quantity is never negative.
C24_PositionInvariant ==
    /\ FlatIffNoAverage(positions)
    /\ \A symbol \in DOMAIN positions : positions[symbol].quantity >= 0

\* C24, amended: with non-negative prices and positive quantities the
\* quantity of a position is never negative, its average_price is never
\* negative, and quantity = 0 implies average_price = 0; an update_position at
\* a positive price keeps average_price = 0 iff quantity = 0 in every position
\* (a quantity bought at price 0 has average_price 0).
C24_PositionInvariantPositivePrices ==
    /\ \A symbol \in DOMAIN positions :
          /\ positions[symbol].quantity >= 0
          /\ positions[symbol].average_price.n >= 0
          /\ positions[symbol].quantity = 0 =>
                SameDecimal(positions[symbol].average_price, Decimal_ZERO)
    /\ (/\ risk_last.op = "update_position"
        /\ risk_last.order.price > 0
        /\ FlatIffNoAverage(risk_last.positions)) => FlatIffNoAverage(positions)

\* A Sell at a positive price of more than is held, bought at a positive
\* price: the position is flat with average_price 0.
C24_Witness ==
    /\ risk_last.op = "update_position"
    /\ risk_last.order.side = "Sell"
    /\ risk_last.order.price > 0
    /\ Before(risk_last).quantity > 0
    /\ Before(risk_last).quantity < risk_last.order.quantity
    /\ Before(risk_last).average_price.n > 0
    /\ After(risk_last).quantity = 0

\* The realized_pnl a symbol's position has gained since the last
\* reset_daily_pnl (since creation if there was none)
GainedSinceReset(symbol) == Decimal_sub(realized_pnl_of(symbol), at_reset[symbol])

RECURSIVE TotalGained(_)
TotalGained(symbols) ==
    IF symbols = {} THEN Decimal_ZERO
    ELSE LET symbol == CHOOSE x \in symbols : TRUE
         IN Decimal_add(GainedSinceReset(symbol), TotalGained(symbols \ {symbol}))

DailyPnlIsTotalGained == SameDecimal(daily_pnl, TotalGained(RiskSymbols))

\* A step in which reset_daily_pnl returns
ResetReturns == risk_last' /= risk_last /\ risk_last'.op = "reset_daily_pnl"

CheckedOrders ==
    {Order_new(0, symbol, side, "Limit", price, quantity) :
        symbol \in RiskSymbols, side \in Side, price \in Prices, quantity \in Quantities}

\* C26: check_circuit_breaker returns true iff daily_pnl < -max_daily_loss
\* (false at exactly -max_daily_loss) and changes no state; in a state where
\* it returns true check_order rejects every order, and a check_order that
\* rejects for the daily loss was made in a state where it returns true.
C26_CircuitBreaker ==
    /\ risk_last.op = "check_circuit_breaker" =>
          /\ risk_last.breaker <=> DailyLossFails(risk_last)
          /\ positions = risk_last.positions
          /\ daily_pnl = risk_last.daily_pnl
    /\ (risk_last.op = "check_circuit_breaker" /\ risk_last.breaker) =>
          \A order \in CheckedOrders :
              check_order(positions, daily_pnl, order).result /= "Ok"
    /\ risk_last.op = "check_order" =>
          /\ check_circuit_breaker(risk_last.daily_pnl) => risk_last.result /= "Ok"
          /\ risk_last.result = "DailyLoss" => check_circuit_breaker(risk_last.daily_pnl)

\* check_circuit_breaker has returned true.
C26_Witness ==
    /\ risk_last.op = "check_circuit_breaker"
    /\ risk_last.breaker
    /\ DailyLossFails(risk_last)

\* A step in which a call of the given kind returns
Returns(op) == last' /= last /\ last'.op = op

\* C27: a symbol has no book until the first submit_order for it and has one
\* ever after: a book is never removed, also when fills or cancels have
\* emptied both of its sides, and only submit_order adds one, for its own
\* symbol; cancel_order and get_orderbook_snapshot on a symbol without book
\* return an error / None and create none; get_all_symbols returns exactly
\* the symbols that have a book.
C27_SymbolLifecycle ==
    /\ [](last.op = "submit" => last.symbol \in DOMAIN orderbooks)
    /\ [](last.op = "symbols" => last.symbols = DOMAIN orderbooks)
    /\ [][/\ DOMAIN orderbooks \subseteq DOMAIN orderbooks'
          /\ DOMAIN orderbooks' /= DOMAIN orderbooks =>
                /\ Returns("submit")
                /\ DOMAIN orderbooks' = DOMAIN orderbooks \cup {last'.symbol}
          /\ (Returns("cancel") /\ last'.symbol \notin DOMAIN orderbooks) =>
                ~last'.ok /\ orderbooks' = orderbooks
          /\ (Returns("snapshot") /\ last'.symbol \notin DOMAIN orderbooks) =>
                last'.snapshot = <<>> /\ orderbooks' = orderbooks]_vars

\* get_all_symbols returns both symbols while the book of one has been
\* emptied by a fill or a cancel and the other symbol's book holds an order.
C27_Witness ==
    /\ last.op = "symbols"
    /\ last.symbols = Markets
    /\ \E symbol \in Markets : RestingOrders(orderbooks[symbol]) = {}
    /\ \E symbol \in Markets : RestingOrders(orderbooks[symbol]) /= {}

\* C28: the engine consults the risk gate before matching: every order that
\* submit_order matches or rests in a book is one that check_order accepts, and
\* an order that check_order would reject produces no trade and no resting
\* order.
C28_RiskGatedSubmission ==
    (/\ last.op = "submit"
     /\ check_order(positions, daily_pnl, last.incoming).result /= "Ok") =>
        /\ last.trades = <<>>
        /\ last.incoming.id \notin RestingIds(orderbooks[last.symbol])

\* A step in which check_order returns
CheckReturns == risk_last' /= risk_last /\ risk_last'.op = "check_order"

\* C29: check_order, whether it accepts or rejects, leaves the positions (and
\* the set of symbols that have an entry), daily_pnl, every order book and
\* the trade channel unchanged; a check_order of the same order that follows
\* a check_order with no other call between them gives the same result.
C29_CheckOrderHasNoEffect ==
    [][/\ CheckReturns =>
            /\ positions' = positions
            /\ DOMAIN positions' = DOMAIN positions
            /\ daily_pnl' = daily_pnl
            /\ orderbooks' = orderbooks
            /\ channel' = channel
       /\ (/\ risk_last.op = "check_order"
           /\ risk_last'.op = "check_order"
           /\ risk_last'.order = risk_last.order) =>
               risk_last'.result = risk_last.result]_vars

\* A rejected order for a symbol that has no position entry, while the other
\* symbol has one: the symbol still has none.
C29_Witness ==
    /\ risk_last.op = "check_order"
    /\ risk_last.result /= "Ok"
    /\ risk_last.order.symbol \notin DOMAIN positions
    /\ DOMAIN positions /= {}
    /\ positions = risk_last.positions

\* The orders a submit_order call's trades can refer to: those resting in the
\* book it read, and the one it was given
OrdersOfCall(call) == RestingOrders(call.seen) \cup {call.incoming}

\* C30: in every trade emitted through submit_order, buy_order_id is the id of
\* an order with side Buy and sell_order_id the id of an order with side
\* Sell, whichever of the two came in; both orders have the trade's symbol.
C30_TradeSideAttribution ==
    last.op = "submit" =>
        \A i \in 1..Len(last.trades) :
            LET trade == last.trades[i]
            IN /\ \E order \in OrdersOfCall(last) :
                      /\ order.id = trade.buy_order_id
                      /\ order.side = "Buy"
                      /\ order.symbol = trade.symbol
               /\ \E order \in OrdersOfCall(last) :
                      /\ order.id = trade.sell_order_id
                      /\ order.side = "Sell"
                      /\ order.symbol = trade.symbol
               /\ \A order \in OrdersOfCall(last) :
                      order.id \in {trade.buy_order_id, trade.sell_order_id} =>
                          order.side = (IF order.id = trade.buy_order_id
                                        THEN "Buy" ELSE "Sell")

\* An incoming Sell has traded with a resting Buy of its symbol while the
\* other symbol's book holds an order.
C30_Witness ==
    /\ last.op = "submit"
    /\ last.incoming.side = "Sell"
    /\ Len(last.trades) = 1
    /\ last.trades[1].sell_order_id = last.incoming.id
    /\ \E symbol \in DOMAIN orderbooks :
          symbol /= last.symbol /\ RestingOrders(orderbooks[symbol]) /= {}

\* The statuses from which the state machine has no way out
TerminalStatus == {"Filled", "Cancelled", "Rejected"}

\* C31: an order whose status is Filled, Cancelled or Rejected is never moved
\* to another status: submit_order given such an order returns it with that
\* status and does not rest it; and the order that a successful cancel_order
\* removes ends with status Cancelled.
C31_TerminalStatusFinal ==
    /\ (last.op = "submit" /\ last.incoming.status \in TerminalStatus) =>
          /\ last.final_order.status = last.incoming.status
          /\ last.incoming.id \notin RestingIds(orderbooks[last.symbol])
    /\ (last.op = "cancel" /\ last.ok) =>
          RestingOrder(last.seen, last.id).status = "Cancelled"

\* The orders with nothing left that a caller may hand in
SpentOrders ==
    {Order_with(0, symbol, side, price, quantity, quantity, "Open") :
        symbol \in Symbols, side \in Side, price \in Prices, quantity \in Quantities}

\* match_order leaves the order and the book alone and makes no trade
ShortCircuits(book, order) ==
    match_order(book, order) = [book |-> book, order |-> order, trades |-> <<>>]

\* C32: match_order given an incoming order with remaining quantity 0 returns
\* the order unchanged with no trade and leaves both sides of the book
\* unchanged, also when resting orders cross its price; submit_order of such an
\* order returns it as Filled and does not rest it.
C32_ZeroRemainingShortCircuit ==
    /\ \A book \in Books : \A order \in SpentOrders : ShortCircuits(book, order)
    /\ (last.op = "submit" /\ remaining_quantity(last.incoming) = 0) =>
          /\ last.matched = [last.incoming EXCEPT !.status = "Open"]
          /\ last.trades = <<>>
          /\ orderbooks[last.symbol] = last.seen
          /\ last.final_order = [last.incoming EXCEPT !.status = "Filled"]
          /\ last.incoming.id \notin RestingIds(orderbooks[last.symbol])

\* A submit_order of an order with nothing left, while an order that crosses
\* its price rests on the other side.
C32_Witness ==
    /\ last.op = "submit"
    /\ remaining_quantity(last.incoming) = 0
    /\ last.incoming.quantity > 0
    /\ prices_to_match(last.incoming,
                       OppositeLadder(last.seen, last.incoming.side)) /= <<>>
    /\ last.final_order.status = "Filled"

\* The orders whose total quantity is on record: those resting in a book,
\* those in the book a call in flight or the last call read, and the orders
\* these calls were given
KnownOrders ==
    UNION ({RestingOrders(b) : b \in Books}
           \cup {RestingOrders(tasks[t].seen) \cup {tasks[t].incoming} :
                    t \in {x \in Tasks : tasks[x].pc /= "idle"}}
           \cup {IF last.op = "submit"
                 THEN RestingOrders(last.seen) \cup {last.incoming}
                 ELSE {}})

\* The quantity of all published trades that reference an order id
PublishedFills(id) ==
    SeqSum([i \in 1..Len(channel) |->
               IF References(channel[i], id) THEN channel[i].quantity ELSE 0])

\* C33: for every order id, the quantities of all trades published on the
\* channel that reference it, as buy or as sell order, never add up to more
\* than the order's total quantity, in every interleaving of concurrent
\* submit_order and cancel_order calls on the symbol.
C33_NoOverfill ==
    \A order \in KnownOrders : PublishedFills(order.id) <= order.quantity

\* C34: once every concurrent submit_order call on a symbol has returned, an
\* order that was returned Open or PartiallyFilled, and that no cancel_order
\* has named and no later order has traded with, rests in the symbol's book
\* with the remaining quantity it was returned with: the book stored by one
\* submit does not discard the residual stored by another.
C34_NoLostOrder ==
    (/\ AllIdle
     /\ last.op = "submit"
     /\ last.final_order.status \in {"Open", "PartiallyFilled"}
     /\ cancelled[last.id].count = 0
     /\ PassiveFills(last.id) = 0) =>
        \E o \in RestingOrders(orderbooks[last.symbol]) :
            /\ o.id = last.id
            /\ remaining_quantity(o) = remaining_quantity(last.final_order)

\* The first level of a ladder, in the order remove_order scans it, that queues
\* an order with the id
FirstLevelWith(ladder, id) ==
    CHOOSE p \in DOMAIN ladder :
        /\ \E i \in 1..Len(ladder[p]) : ladder[p][i].id = id
        /\ \A q \in DOMAIN ladder :
              q < p => \A i \in 1..Len(ladder[q]) : ladder[q][i].id # id

\* The queue without its first order with the id, the others in their places
WithoutFirst(orders, id) ==
    LET pos == CHOOSE i \in 1..Len(orders) :
                  /\ orders[i].id = id
                  /\ \A j \in 1..(i - 1) : orders[j].id # id
    IN [i \in 1..(Len(orders) - 1) |->
           IF i < pos THEN orders[i] ELSE orders[i + 1]]

\* The ladder after is the ladder before less the first order with the id:
\* every other order at its level, in its place, as it was
LadderLessFirst(before, after, id) ==
    LET price == FirstLevelWith(before, id)
        rest == WithoutFirst(before[price], id)
    IN /\ DOMAIN after = IF rest = <<>>
                         THEN (DOMAIN before) \ {price}
                         ELSE DOMAIN before
       /\ \A p \in DOMAIN after :
             after[p] = IF p = price THEN rest ELSE before[p]

\* The book after is the book before less one order: the first with the id on
\* the Buy side, or on the Sell side when the Buy side has none
CancelFrame(before, after, id) ==
    /\ after.symbol = before.symbol
    /\ IF id \in LadderIds(before.bids)
       THEN /\ LadderLessFirst(before.bids, after.bids, id)
            /\ after.asks = before.asks
       ELSE /\ LadderLessFirst(before.asks, after.asks, id)
            /\ after.bids = before.bids

\* C35: a cancel_order(id, symbol) that succeeds removes exactly one resting
\* order, the first with that id, looked for on the Buy side before the Sell
\* side, and leaves every other resting order of the book at its price level,
\* in its FIFO position, with its filled quantity and status; it publishes no
\* trade.
C35_CancelFrame ==
    [][(last'.op = "cancel" /\ last'.ok) =>
          /\ CancelFrame(orderbooks[last'.symbol], orderbooks'[last'.symbol], last'.id)
          /\ Cardinality(DOMAIN orderbooks') = Cardinality(DOMAIN orderbooks)
          /\ channel' = channel]_vars

\* A cancel succeeded on a book that queued two orders with the id at one Buy
\* level, after a trade was published, and the second still rests
C35_Witness ==
    /\ last.op = "cancel"
    /\ last.ok
    /\ channel # <<>>
    /\ \E p \in DOMAIN last.seen.bids :
          /\ Len(last.seen.bids[p]) > 1
          /\ \A i \in 1..Len(last.seen.bids[p]) : last.seen.bids[p][i].id = last.id
          /\ orderbooks[last.symbol].bids[p] = Tail(last.seen.bids[p])

\* The symbols that the calls taking a step are for: the symbol of the
\* submit_order of each task that moves, or of the cancel_order that returns
Operated ==
    {tasks'[t].symbol : t \in {x \in Tasks : tasks[x].pc = "idle" /\ tasks'[x] # tasks[x]}}
    \cup {tasks[t].symbol : t \in {x \in Tasks : tasks[x].pc # "idle" /\ tasks'[x] # tasks[x]}}
    \cup (IF tasks' = tasks /\ last'.op = "cancel" THEN {last'.symbol} ELSE {})

\* The book a step leaves for the symbol is a function of that symbol's book
\* before the step and of the call alone
BookStep(symbol) ==
    /\ \A t \in Tasks :
          (tasks[t].pc = "idle" /\ tasks'[t].pc # "idle") =>
              /\ symbol \in DOMAIN orderbooks'
              /\ orderbooks'[symbol] = BookOf(symbol)
    /\ \A t \in Tasks :
          (tasks[t].pc = "store" /\ tasks'[t].pc # "store") =>
              orderbooks'[symbol] =
                  submit_local(orderbooks[symbol], tasks[t].incoming).book
    /\ \A t \in Tasks :
          (tasks[t].pc = "send" /\ tasks'[t] # tasks[t]) =>
              symbol \in DOMAIN orderbooks /\ orderbooks'[symbol] = orderbooks[symbol]
    /\ (tasks' = tasks /\ last'.op = "cancel") =>
          IF symbol \in DOMAIN orderbooks
          THEN orderbooks'[symbol] = cancel_in_book(orderbooks[symbol], last'.id).book
          ELSE symbol \notin DOMAIN orderbooks'

\* C36: submit_order and cancel_order for a symbol leave the book of every
\* other symbol as it was and publish only trades of their own symbol, however
\* the calls for different symbols interleave; each step changes a symbol's
\* book as a function of that book and the call alone, so the final book of a
\* symbol depends only on the calls made for it.
C36_CrossSymbolIsolation ==
    [][/\ Cardinality(Operated) <= 1
       /\ \A symbol \in Markets \ Operated :
             /\ symbol \in DOMAIN orderbooks' <=> symbol \in DOMAIN orderbooks
             /\ symbol \in DOMAIN orderbooks =>
                   orderbooks'[symbol] = orderbooks[symbol]
       /\ Len(channel') >= Len(channel)
       /\ SubSeq(channel', 1, Len(channel)) = channel
       /\ \A i \in (Len(channel) + 1)..Len(channel') :
             channel'[i].symbol \in Operated
       /\ \A symbol \in Operated : BookStep(symbol)]_vars

\* Two submit_order calls for different symbols have overlapped: the order
\* that began later was stored first; a trade is on the channel, all calls
\* have returned and both symbols have a book, one of them holding an order.
C36_Witness ==
    /\ AllIdle
    /\ \E i, j \in 1..Len(applied) : i < j /\ applied[i] > applied[j]
    /\ channel # <<>>
    /\ DOMAIN orderbooks = Markets
    /\ \E symbol \in Markets : RestingOrders(orderbooks[symbol]) # {}

\* The engine as the k-th execute_signal call left it
AfterSignal(k) == IF k = Len(signals) THEN backtest ELSE signals[k + 1].found

\* The k-th call was a Buy and the next a Sell of the same quantity
BuyThenSell(k) ==
    /\ k + 1 <= Len(signals)
    /\ signals[k].side = "Buy"
    /\ signals[k + 1].side = "Sell"
    /\ signals[k + 1].quantity = signals[k].quantity

\* C37: on a fresh BacktestEngine, an execute_signal Buy of a quantity at a
\* price followed by an execute_signal Sell of the same quantity at a higher
\* price leaves get_results().total_pnl above zero.
C37_RoundTripProfitable ==
    (BuyThenSell(1) /\ signals[2].price > signals[1].price) =>
        Decimal_lt(Decimal_ZERO, get_results(AfterSignal(2)).total_pnl)

\* The Buy found the capital for its cost, the Sell at a higher price closed
\* the whole position, and get_results counts one winning pair of trades
C37_Witness ==
    /\ BuyThenSell(1)
    /\ signals[2].price > signals[1].price
    /\ signals[1].price > 0
    /\ signals[1].result # <<>>
    /\ signals[2].result # <<>>
    /\ Decimal_eq(AfterSignal(2).position, Decimal_ZERO)
    /\ get_results(AfterSignal(2)).winning_trades = 1
    /\ Decimal_lt(Decimal_ZERO, get_results(AfterSignal(2)).total_pnl)

\* The cost of the k-th call, price times quantity
SignalCost(k) == Decimal_from(signals[k].price * signals[k].quantity)

\* C38: when a Buy that finds the capital for its cost is executed from a flat
\* position with the capital the engine began with, and a Sell of the same
\* quantity then closes the whole long position, current_capital ends at
\* initial_capital plus (sell price - buy price) * quantity and total_pnl is
\* that realized profit; a Buy on a flat or long position whose cost exceeds
\* current_capital returns no trade and leaves capital, position and trade
\* list as they were.
C38_CapitalAccounting ==
    /\ \A k \in 1..(Len(signals) - 1) :
          (/\ BuyThenSell(k)
           /\ Decimal_eq(signals[k].found.position, Decimal_ZERO)
           /\ Decimal_eq(signals[k].found.current_capital,
                         signals[k].found.initial_capital)
           /\ Decimal_le(SignalCost(k), signals[k].found.current_capital)) =>
              LET profit == Decimal_from(
                      (signals[k + 1].price - signals[k].price) * signals[k].quantity)
                  after == AfterSignal(k + 1)
              IN /\ Decimal_eq(after.current_capital,
                               Decimal_add(after.initial_capital, profit))
                 /\ Decimal_eq(get_results(after).total_pnl, profit)
    /\ \A k \in 1..Len(signals) :
          (/\ signals[k].side = "Buy"
           /\ Decimal_le(Decimal_ZERO, signals[k].found.position)
           /\ Decimal_lt(signals[k].found.current_capital, SignalCost(k))) =>
              /\ signals[k].result = <<>>
              /\ AfterSignal(k) = signals[k].found
====
